---- MODULE Spec2Model ----
(***************************************************************************)
(* A model of sp_deform: the Specimen step loop and its gauges, the        *)
(* population of grain groups with refinement and merging, the extremum    *)
(* finder and the rate-curve builders that drive it.                       *)
(*                                                                         *)
(* Real-valued quantities (volumes, sizes, strains, stresses, loads) are   *)
(* exact rationals <<numerator, denominator>> in lowest terms with a       *)
(* positive denominator.  None is the empty tuple.                         *)
(***************************************************************************)
EXTENDS Integers, Sequences, FiniteSets, TLC

VARIABLES
    \* ---- Specimen (specimen.py) and its gauges (gauges.py)
    time,            \* Specimen.time, in units of the smallest time step
    test_program,    \* Specimen._test_program: 0 is None, r > 0 is "lambda t: r * t"
    micro,           \* Specimen.microstructure_state: [upto, stress]
    gdata,           \* Gauge._data of every gauge
    glast,           \* Gauge._last_update of every gauge
    gstate,          \* the DeformationEnergyGauge's own fields
    pc,              \* position of the control inside run_test
    gauges,          \* run_test's argument gauges
    time_step,       \* run_test's argument time_step
    gi,              \* position of _fill_gauges' loop over gauges
    \* ---- bookkeeping of the current run_test call and of all calls
    calls,           \* run_test calls started so far
    iters,           \* loop iterations completed in the current call
    nMake,           \* make_step calls of the current call
    nEval,           \* end_condition evaluations of the current call
    nStore,          \* step readings stored per gauge in the current call
    entry,           \* time, micro and gdata at the entry of the current call
    sumIters,        \* per gauge: iterations completed by the calls that listed it
    \* ---- ExtremaFinder (utils.py)
    finder,          \* the finder's fields
    reached,         \* what the last check_extrema_reached returned
    shape,           \* bookkeeping of the shape of the values fed so far
    \* ---- rate-curve builders (curves_builders.py)
    builder,         \* the builder's own fields
    trail,           \* per end_condition evaluation: the readings it saw
    \* ---- VolumeFractionWeightedMicrostructureState (models/states.py)
    grain_groups,    \* the population: a sequence of [volume, size, strain, id]
    popModel,        \* the model's refinement capability and merge threshold
    popStep,         \* the phases of the last macro step
    popSteps,        \* macro steps made
    \* ---- SuperplasticityModel (models/base_classes.py) and its
    \* ---- identification (models/identification.py)
    model,           \* the Model object: its class and its attributes
    modelOp,         \* the last operation on a Model object and how it ended
    rebuilt,         \* the object made by model.__class__(**model.to_dict())
    ident,           \* the position and the arguments of identify_model
    stages,          \* per fitting stage started: what it fits and what it did
    \* ---- get_model_metrics (models/metrics.py)
    metrics          \* the position, the arguments and the locals of the call

runVars  == <<time, test_program, micro, gdata, glast, gstate, pc, gauges, time_step, gi>>
bookVars == <<calls, iters, nMake, nEval, nStore, entry, sumIters>>
finVars  == <<finder, reached, shape>>
bldVars  == <<builder, trail>>
popVars  == <<grain_groups, popModel, popStep, popSteps>>
idVars   == <<model, modelOp, rebuilt, ident, stages>>
metVars  == <<metrics>>
vars     == <<runVars, bookVars, finVars, bldVars, popVars, idVars, metVars>>

\* ------------------------------------------------------------------ bounds
MaxTime     == 4     \* run_test is followed until Specimen.time reaches this
MaxCalls    == 2     \* run_test calls on one Specimen
MaxSets     == 1     \* assignments to attributes of one Model object
MaxTrials   == 2     \* evaluations of the functional leastsq makes in one stage
MaxOther    == 1     \* additional parameter groups identify_model is given
MaxStrain   == 1     \* the largest abscissa of the strain and growth curves fitted

\* ------------------------------------------------------------- arithmetic
None == <<>>

Abs(x) == IF x < 0 THEN -x ELSE x

RECURSIVE GCD(_, _)
GCD(a, b) == IF b = 0 THEN a ELSE GCD(b, a % b)

LCM(a, b) == (a \div GCD(a, b)) * b

\* the rational n/d (d # 0) in lowest terms
Rat(n, d) ==
    LET g == GCD(Abs(n), Abs(d))
        s == IF d < 0 THEN -1 ELSE 1
    IN  <<s * (n \div g), s * (d \div g)>>

Whole(n) == <<n, 1>>

RAdd(x, y) ==
    IF x[2] = y[2] /\ x[2] = 1 THEN <<x[1] + y[1], 1>>
    ELSE LET l == LCM(x[2], y[2])
         IN  Rat(x[1] * (l \div x[2]) + y[1] * (l \div y[2]), l)

RNeg(x) == <<-x[1], x[2]>>

RSub(x, y) == RAdd(x, RNeg(y))

RMul(x, y) ==
    IF x[2] = y[2] /\ x[2] = 1 THEN <<x[1] * y[1], 1>>
    ELSE LET g1 == GCD(Abs(x[1]), y[2])
             g2 == GCD(Abs(y[1]), x[2])
         IN  Rat((x[1] \div g1) * (y[1] \div g2), (x[2] \div g2) * (y[2] \div g1))

\* x / y for y # 0
RDiv(x, y) == RMul(x, Rat(y[2], y[1]))

RAbs(x) == <<Abs(x[1]), x[2]>>

RLt(x, y) ==
    IF x[2] = y[2] THEN x[1] < y[1]
    ELSE LET l == LCM(x[2], y[2])
         IN  x[1] * (l \div x[2]) < y[1] * (l \div y[2])

RLe(x, y) == ~RLt(y, x)

RECURSIVE Pow(_, _)
Pow(b, k) == IF k = 0 THEN 1 ELSE b * Pow(b, k - 1)

Last(s) == s[Len(s)]

\* ------------------------------------------------------------- Specimen
\* The gauges of the builders: SpecimenGauge('strain'),
\* MicrostructureGauge('stress') and LoadGauge(stress gauge) of the rate and
\* strain curves, SpecimenGauge('time') and MicrostructureGauge('grain_size')
\* of the grain growth curves, and DeformationEnergyGauge(stress gauge,
\* strain gauge).
GaugeIds == {"strain", "stress", "load", "time", "grain_size", "energy"}

NoUpdate == -1       \* Gauge._last_update = None (never equal to a time)

\* Specimen.get_strain for a registered program "lambda t: rate * t"
get_strain(rate, t) == Whole(rate * t)

\* Specimen.get_length: initial_length * exp(strain), initial_length = 1;
\* the unit of strain is ln 2, so that exp(k units) = 2^k exactly
get_length(rate, t) == Whole(Pow(2, rate * t))

\* Gauge.empty and Gauge.reading
empty(g) == gdata[g] = <<>>
reading(g) == IF gdata[g] # <<>> THEN Last(gdata[g]) ELSE None

ParentStaleIfNeverRead(g) == g = "load" /\ glast["stress"] = NoUpdate

\* DependentGauge._measure of the LoadGauge: its parent must be up to date
ParentStale(g) ==
    \/ g = "load" /\ glast["stress"] # time
    \/ g = "energy" /\ (glast["stress"] # time \/ glast["strain"] # time)

\* DeformationEnergyGauge.__init__: no previous readings, energy = 0; seen
\* lists the parents' readings of every measurement made
NoEnergy ==
    [prev_stress |-> None, prev_strain |-> None, energy |-> Whole(0), seen |-> <<>>]

EnergyByRectangles(st) ==
    IF st.prev_stress # None /\ st.prev_strain # None
    THEN RAdd(st.energy, RMul(reading("stress"), RSub(reading("strain"), st.prev_strain)))
    ELSE st.energy

\* DeformationEnergyGauge._dependent_measure: self.energy after the update
Energy(st) ==
    IF st.prev_stress # None /\ st.prev_strain # None
    THEN RAdd(st.energy,
              RMul(RMul(<<1, 2>>, RAdd(reading("stress"), st.prev_stress)),
                   RSub(reading("strain"), st.prev_strain)))
    ELSE st.energy

\* the gauges' own fields after gauge g has measured
AfterMeasure(g) ==
    IF g = "energy"
    THEN [prev_stress |-> reading("stress"), prev_strain |-> reading("strain"),
          energy |-> Energy(gstate),
          seen |-> Append(gstate.seen, [stress |-> reading("stress"),
                                        strain |-> reading("strain")])]
    ELSE gstate

\* the grain size of a state integrated up to t
SizeAt(t) == Whole(t + 2)

\* Gauge._measure of the gauges
Measure(g) ==
    CASE g = "strain" -> get_strain(test_program, time)
      [] g = "stress" -> micro.stress
      [] g = "load"   -> RDiv(reading("stress"), get_length(test_program, time))
      [] g = "time"   -> Whole(time)
      [] g = "grain_size" -> SizeAt(micro.upto)
      [] g = "energy" -> Energy(gstate)

StoreReadingOverwrite(g) ==
    /\ gdata' = [gdata EXCEPT ![g] = <<Measure(g)>>]
    /\ glast' = [glast EXCEPT ![g] = time]
    /\ gstate' = AfterMeasure(g)

\* Gauge.store_reading: append the measurement, then stamp the time
StoreReading(g) ==
    /\ gdata' = [gdata EXCEPT ![g] = Append(@, Measure(g))]
    /\ glast' = [glast EXCEPT ![g] = time]
    /\ gstate' = AfterMeasure(g)

\* the gauge lists run_test is given: in dependency order, with the
\* dependent gauge ahead of its parent, and with it alone
GaugeLists ==
    { <<>>, <<"strain">>, <<"strain", "stress">>,
      <<"strain", "stress", "load">>, <<"load", "stress">>, <<"load">> }

\* the time steps run_test is given
TimeSteps == {1, 2}

\* the stress the material model answers once the state is integrated up to t
StressAt(t) == Whole(8 * (t + 1))

Listed(g) == \E i \in DOMAIN gauges : gauges[i] = g

InitPop ==
    /\ grain_groups = <<>>
    /\ popModel = None
    /\ popStep = None
    /\ popSteps = 0

InitFinder ==
    /\ finder = None
    /\ reached = FALSE
    /\ shape = None

InitBuilder ==
    /\ builder = None
    /\ trail = <<>>

\* no Model object, no operation on one, no identify_model call
NoModel == [cls |-> "none", dict |-> <<>>]
NoOp == [op |-> "none"]
NoCall ==
    [pc |-> "none", at |-> "", num |-> 0, args |-> <<>>, initial |-> NoModel,
     kind |-> "", params |-> <<>>, policy |-> "", trials |-> 0,
     x0 |-> <<>>, x |-> <<>>, raw |-> NoModel, updates |-> 0]

\* no call of get_model_metrics
NoMetrics ==
    [pc |-> "none", error |-> "", kind |-> "", metric_type |-> "",
     reference |-> <<>>, index |-> 0, values |-> <<>>,
     sum_metric |-> Whole(0), sum_weight |-> 0, pooled |-> None]

InitMetrics == metrics = NoMetrics

InitIdent ==
    /\ model = NoModel
    /\ modelOp = NoOp
    /\ rebuilt = NoModel
    /\ ident = NoCall
    /\ stages = <<>>

\* Specimen.__init__ and Gauge.__init__
InitSpecimen ==
    /\ time = 0
    /\ test_program = 0
    /\ micro \in [upto : {0}, stress : {Whole(0)}]
    /\ gdata = [g \in GaugeIds |-> <<>>]
    /\ glast = [g \in GaugeIds |-> NoUpdate]
    /\ gstate = NoEnergy
    /\ pc = "idle"
    /\ gauges = <<>>
    /\ time_step = 0
    /\ gi = 0
    /\ calls = 0
    /\ iters = 0
    /\ nMake = 0
    /\ nEval = 0
    /\ nStore = [g \in GaugeIds |-> 0]
    /\ entry = None
    /\ sumIters = [g \in GaugeIds |-> 0]

Init == InitSpecimen /\ InitIdent /\ InitMetrics /\ InitFinder /\ InitBuilder /\ InitPop

\* run_test, lines 52-53: register the program, enter the initial fill
RunTest(gl, ts, rate) ==
    /\ pc = "idle"
    /\ calls < MaxCalls
    /\ test_program' = rate
    /\ gauges' = gl
    /\ time_step' = ts
    /\ pc' = "fill0"
    /\ gi' = 1
    /\ calls' = calls + 1
    /\ iters' = 0
    /\ nMake' = 0
    /\ nEval' = 0
    /\ nStore' = [g \in GaugeIds |-> 0]
    /\ entry' = [time |-> time, micro |-> micro, gdata |-> gdata, glast |-> glast]
    /\ UNCHANGED <<time, micro, gdata, glast, gstate, sumIters>>

SkipNever(g) == FALSE

\* _fill_gauges: "if only_empty and not gauge.empty: continue", only_empty = True
SkipFilled(g) == ~empty(g)

\* one round of the loop of _fill_gauges(gauges, only_empty=True)
FillInitial ==
    /\ pc = "fill0"
    /\ IF gi > Len(gauges)
       THEN /\ pc' = "check"
            /\ UNCHANGED <<gdata, glast, gstate, gi>>
       ELSE IF SkipFilled(gauges[gi])
       THEN /\ gi' = gi + 1
            /\ UNCHANGED <<gdata, glast, gstate, pc>>
       ELSE IF ParentStale(gauges[gi])
       THEN /\ pc' = "raised"
            /\ UNCHANGED <<gdata, glast, gstate, gi>>
       ELSE /\ StoreReading(gauges[gi])
            /\ gi' = gi + 1
            /\ pc' = pc
    /\ UNCHANGED <<time, test_program, micro, gauges, time_step>>
    /\ UNCHANGED bookVars

\* "while not end_condition()": one evaluation of the condition, an arbitrary
\* function of the specimen and of the gauges, answering b
EndCondition(b) ==
    /\ pc = "check"
    /\ nEval' = nEval + 1
    /\ pc' = IF b THEN "idle" ELSE "step"
    /\ UNCHANGED <<time, test_program, micro, gdata, glast, gstate, gauges, time_step, gi>>
    /\ UNCHANGED <<calls, iters, nMake, nStore, entry, sumIters>>

\* PlasticMicrostructureState.make_step, line 44: the state becomes rk.y, the
\* solver's state at its final time t; the stress the model answers for it
\* is s
MakeStepAt(t, s) == [upto |-> t, stress |-> s]

\* COMPUTATIONAL_EPSILON = 1e-15, as the number of decimal digits it shifts by
EPSILON_DIGITS == 15

RECURSIVE ShiftDown(_, _)
ShiftDown(n, digits) == IF digits = 0 THEN n ELSE ShiftDown(n \div 10, digits - 1)

\* _integrate_via_runge_kutta, line 219:
\* abs(target_time - rk.t) > abs(target_time) * COMPUTATIONAL_EPSILON
TimeMismatch(target_time, t) ==
    Abs(target_time - t) > ShiftDown(Abs(target_time), EPSILON_DIGITS)

\* how RK45 may leave its loop "while rk.status == 'running'": finished at
\* the bound, finished short of it, or failed on the way
SolverRuns(initial_time, target_time) ==
    { [status |-> "finished", t |-> target_time],
      [status |-> "finished", t |-> initial_time],
      [status |-> "failed", t |-> initial_time] }

SolverFinished(target_time) == [status |-> "finished", t |-> target_time]

IntegrationUnchecked(rk, target_time) == FALSE

\* _integrate_via_runge_kutta, lines 217-220: the two RuntimeErrors
IntegrationFails(rk, target_time) ==
    \/ rk.status # "finished"
    \/ TimeMismatch(target_time, rk.t)

\* microstructure_state.make_step(self, time_step) of run_test, line 60: the
\* solver run rk either raises, which ends run_test, or gives the new state
MakeStep(s, rk) ==
    /\ pc = "step"
    /\ time + time_step <= MaxTime
    /\ nMake' = nMake + 1
    /\ IF IntegrationFails(rk, time + time_step)
       THEN /\ pc' = "failed"
            /\ UNCHANGED micro
       ELSE /\ pc' = "advance"
            /\ micro' = MakeStepAt(rk.t, s)
    /\ UNCHANGED <<time, test_program, gdata, glast, gstate, gauges, time_step, gi>>
    /\ UNCHANGED <<calls, iters, nEval, nStore, entry, sumIters>>

AdvanceTimeRestart ==
    /\ pc = "advance"
    /\ time' = iters * time_step + time_step
    /\ pc' = "fill"
    /\ gi' = 1
    /\ UNCHANGED <<test_program, micro, gdata, glast, gstate, gauges, time_step>>
    /\ UNCHANGED bookVars

\* self.time += time_step
AdvanceTime ==
    /\ pc = "advance"
    /\ time' = time + time_step
    /\ pc' = "fill"
    /\ gi' = 1
    /\ UNCHANGED <<test_program, micro, gdata, glast, gstate, gauges, time_step>>
    /\ UNCHANGED bookVars

\* where the control goes when _fill_gauges(gauges) returns inside the loop
AfterFillNoCheck == "step"
AfterFill == "check"

\* one round of the loop of _fill_gauges(gauges)
FillGauges ==
    /\ pc = "fill"
    /\ IF gi > Len(gauges)
       THEN /\ pc' = AfterFill
            /\ iters' = iters + 1
            /\ sumIters' = [g \in GaugeIds |->
                               IF Listed(g) THEN sumIters[g] + 1 ELSE sumIters[g]]
            /\ UNCHANGED <<gdata, glast, gstate, gi, nStore>>
       ELSE IF ParentStale(gauges[gi])
       THEN /\ pc' = "raised"
            /\ UNCHANGED <<gdata, glast, gstate, gi, nStore, iters, sumIters>>
       ELSE /\ StoreReading(gauges[gi])
            /\ nStore' = [nStore EXCEPT ![gauges[gi]] = @ + 1]
            /\ gi' = gi + 1
            /\ UNCHANGED <<pc, iters, sumIters>>
    /\ UNCHANGED <<time, test_program, micro, gauges, time_step>>
    /\ UNCHANGED <<calls, nMake, nEval, entry>>

NextRun ==
    \/ \E gl \in GaugeLists, ts \in TimeSteps : RunTest(gl, ts, 1)
    \/ FillInitial
    \/ \E b \in BOOLEAN : EndCondition(b)
    \/ \E rk \in SolverRuns(time, time + time_step) :
          MakeStep(StressAt(time + time_step), rk)
    \/ AdvanceTime
    \/ FillGauges

Next == NextRun /\ UNCHANGED <<finVars, bldVars, popVars, idVars, metVars>>

Spec == Init /\ [][Next]_vars

\* ---- tests with a DeformationEnergyGauge: with it after its parents, or
\* without it, and a stress that may be negative
EnergyLists ==
    { <<"strain", "stress", "energy">>, <<"stress", "strain", "energy">>,
      <<"strain", "stress">> }

EnergyStress == {Whole(-8), Whole(16)}

NextEnergy ==
    /\ \/ \E gl \in EnergyLists, ts \in TimeSteps : RunTest(gl, ts, 1)
       \/ FillInitial
       \/ \E b \in BOOLEAN : EndCondition(b)
       \/ \E s \in EnergyStress : MakeStep(s, SolverFinished(time + time_step))
       \/ AdvanceTime
       \/ FillGauges
    /\ UNCHANGED <<finVars, bldVars, popVars, idVars, metVars>>

SpecEnergy == Init /\ [][NextEnergy]_vars

\* ------------------------------------------------------- ExtremaFinder
STABILIZATION_THRESHOLD == <<1, 100>>
STABILIZATION_LENGTH == 25
MISS_LENGTH == 5

\* ExtremaType: the value of INF and of SUP
INF == -1
SUP == 1

\* ExtremaFinder.__init__
NewFinder(type, threshold, slen, mlen) ==
    [ extrema_type |-> type,
      stabilization_threshold |-> threshold,
      stabilization_length |-> slen,
      miss_length |-> mlen,
      extreme_value |-> None,
      prev_value |-> None,
      stabilized_length |-> 0,
      missed_length |-> 0 ]

IsCandidateNonStrict(f, cur) ==
    \/ f.extreme_value = None
    \/ RLe(Whole(0), RMul(Whole(f.extrema_type), RSub(cur, f.extreme_value)))

\* check_extrema_reached, lines 104-107: cur_value is a new candidate
IsCandidate(f, cur) ==
    \/ f.extreme_value = None
    \/ RLt(Whole(0), RMul(Whole(f.extrema_type), RSub(cur, f.extreme_value)))

MissedNeverReset(f, cur) ==
    IF f.prev_value = None THEN f.missed_length
    ELSE IF RLt(RMul(Whole(f.extrema_type), RSub(cur, f.prev_value)), Whole(0))
         THEN f.missed_length + 1
         ELSE f.missed_length

\* check_extrema_reached, lines 111-116: the new _missed_length
Missed(f, cur) ==
    IF f.prev_value = None THEN f.missed_length
    ELSE IF RLt(RMul(Whole(f.extrema_type), RSub(cur, f.prev_value)), Whole(0))
         THEN f.missed_length + 1
         ELSE 0

StabilizedNeverReset(f, cur) ==
    IF f.prev_value = None THEN f.stabilized_length
    ELSE IF RLt(RAbs(RSub(cur, f.prev_value)),
                RMul(RAbs(f.prev_value), f.stabilization_threshold))
         THEN f.stabilized_length + 1
         ELSE f.stabilized_length

\* check_extrema_reached, lines 111-120: the new _stabilized_length
Stabilized(f, cur) ==
    IF f.prev_value = None THEN f.stabilized_length
    ELSE IF RLt(RAbs(RSub(cur, f.prev_value)),
                RMul(RAbs(f.prev_value), f.stabilization_threshold))
         THEN f.stabilized_length + 1
         ELSE 0

\* check_extrema_reached: the finder after the call
CheckExtrema(f, cur) ==
    [f EXCEPT !.extreme_value = IF IsCandidate(f, cur) THEN cur ELSE @,
              !.missed_length = Missed(f, cur),
              !.stabilized_length = Stabilized(f, cur),
              !.prev_value = cur]

ExtremaReachedLate(f) ==
    \/ f.stabilized_length > f.stabilization_length
    \/ f.missed_length > f.miss_length

\* check_extrema_reached, lines 122-131: what the call returns, f the finder
\* after the updates
ExtremaReached(f) ==
    \/ f.stabilized_length >= f.stabilization_length
    \/ f.missed_length >= f.miss_length

\* ---- the finder on its own, fed sequences of values
Spread == 2          \* the values fed include 1000, 1005, ..., 1000 + 5 * Spread
Run == 22            \* the falling sequences fed draw on 1000 .. 1000 + Run

FeedValues ==
    {Whole(v) : v \in {-500, 0, 2000}} \cup {Whole(1000 + 5 * k) : k \in 0..Spread}

FallValues ==
    {Whole(v) : v \in {0, 2000}} \cup {Whole(1000 + k) : k \in 0..Run}

\* the relative change from p to v is below 1%
SmallChange(p, v) == RLt(RAbs(RSub(v, p)), RMul(RAbs(p), <<1, 100>>))

\* the shape of the sequence fed so far: strictly rising ("rise"), then
\* constant ("flat") or strictly falling ("fall"); rose tells a rise of at
\* least one step, n counts the steps of the second phase, top is the last value of the rise, small counts
\* the latest consecutive calls whose relative change was below 1%
ShapeAfter(sh, p, v) ==
    IF p = None
    THEN [phase |-> "rise", rose |-> FALSE, n |-> 0, top |-> v, small |-> 0]
    ELSE LET sm == IF SmallChange(p, v) THEN sh.small + 1 ELSE 0
             other == [phase |-> "other", rose |-> FALSE, n |-> 0, top |-> None, small |-> sm]
         IN  CASE sh.phase = "rise" /\ RLt(p, v) ->
                    [sh EXCEPT !.rose = TRUE, !.top = v, !.small = sm]
               [] sh.phase = "rise" /\ v = p ->
                    [sh EXCEPT !.phase = "flat", !.n = 1, !.small = sm]
               [] sh.phase = "rise" /\ RLt(v, p) ->
                    [sh EXCEPT !.phase = "fall", !.n = 1, !.small = sm]
               [] sh.phase = "flat" /\ v = p ->
                    [sh EXCEPT !.n = IF @ > STABILIZATION_LENGTH THEN @ ELSE @ + 1,
                               !.small = sm]
               [] sh.phase = "fall" /\ RLt(v, p) ->
                    [sh EXCEPT !.n = @ + 1, !.small = sm]
               [] OTHER -> other

DefaultFinder(t) ==
    NewFinder(t, STABILIZATION_THRESHOLD, STABILIZATION_LENGTH, MISS_LENGTH)

NoShape == [phase |-> "rise", rose |-> FALSE, n |-> 0, top |-> None, small |-> 0]

InitExt ==
    /\ InitSpecimen /\ InitIdent /\ InitMetrics /\ InitBuilder /\ InitPop
    /\ finder \in {DefaultFinder(t) : t \in {INF, SUP}}
    /\ reached = FALSE
    /\ shape = NoShape

\* one call check_extrema_reached(v); the caller stops at the first True, and
\* the sequences followed are the rising ones, then flat or falling
Feed(v) ==
    /\ ~reached
    /\ shape.phase # "other"
    /\ finder' = CheckExtrema(finder, v)
    /\ reached' = ExtremaReached(finder')
    /\ shape' = ShapeAfter(shape, finder.prev_value, v)

NextExt == (\E v \in FeedValues : Feed(v)) /\ UNCHANGED <<runVars, bookVars, bldVars, popVars, idVars, metVars>>

SpecExt == InitExt /\ [][NextExt]_vars

\* ---- the SUP finder of the Max-Load builder, fed sequences that rise and
\* then fall, in steps small or large
InitFall ==
    /\ InitSpecimen /\ InitIdent /\ InitMetrics /\ InitBuilder /\ InitPop
    /\ finder = DefaultFinder(SUP)
    /\ reached = FALSE
    /\ shape = NoShape

FeedRiseFall(v) == shape.phase # "flat" /\ Feed(v)

NextFall ==
    (\E v \in FallValues : FeedRiseFall(v)) /\ UNCHANGED <<runVars, bookVars, bldVars, popVars, idVars, metVars>>

SpecFall == InitFall /\ [][NextFall]_vars

\* ------------------------------------------------- rate-curve builders
\* RateCurveBuilder._run_test runs one test on a fresh specimen, at a constant
\* strain rate: one unit of strain per unit of time, and
\* get_optimal_time_step(strain_rate) is the unit of time.
StabLen == 2         \* stabilization_length the builders pass to their finder
MissLen == 2         \* miss_length the builders pass to their finder

\* the stresses the material model may answer after a step of the tests
LoadStress  == {Whole(8), Whole(16), Whole(32)}
PieceStress == {Whole(8), Whole(16), Whole(24), Whole(32)}

\* the model's normalized_young_modulus
YoungModuli == {Whole(16)}

\* PiecewiseRateCurveBuilder.ELASTIC_REGION_THRESHOLD = 0.9
ELASTIC_REGION_THRESHOLD == <<9, 10>>

\* MaxLoadRateCurveBuilder.__init__ up to _run_test
InitLoad ==
    /\ InitSpecimen /\ InitIdent /\ InitMetrics /\ InitPop
    /\ finder = NewFinder(SUP, STABILIZATION_THRESHOLD, StabLen, MissLen)
    /\ reached = FALSE
    /\ shape = None
    /\ builder = [result |-> None]
    /\ trail = <<>>

\* PiecewiseRateCurveBuilder.__init__ up to _run_test
InitPiece ==
    /\ InitSpecimen /\ InitIdent /\ InitMetrics /\ InitPop
    /\ finder = NewFinder(INF, STABILIZATION_THRESHOLD, StabLen, MissLen)
    /\ reached = FALSE
    /\ shape = None
    /\ builder \in [ result : {None},
                     initial_derivative : YoungModuli,
                     elastic_region_threshold : {ELASTIC_REGION_THRESHOLD},
                     elastic_region_passed : {FALSE},
                     prev_stress : {None},
                     prev_strain : {None} ]
    /\ trail = <<>>

\* the test's other steps leave the finder and the builder alone
TestStep(A) == A /\ UNCHANGED <<finVars, bldVars, popVars, idVars, metVars>>

\* MaxLoadRateCurveBuilder._store_result
MaxLoadResult == [strain |-> reading("strain"), stress |-> reading("stress")]

\* MaxLoadRateCurveBuilder._end_condition, as run_test's end_condition
EndMaxLoad ==
    LET cur == reading("load")
        f2  == CheckExtrema(finder, cur)
    IN  /\ pc = "check"
        /\ EndCondition(ExtremaReached(f2))
        /\ finder' = f2
        /\ reached' = ExtremaReached(f2)
        /\ builder' = IF IsCandidate(finder, cur)
                      THEN [builder EXCEPT !.result = MaxLoadResult]
                      ELSE builder
        /\ trail' = Append(trail, [value |-> cur, strain |-> reading("strain"),
                                   stress |-> reading("stress")])
        /\ UNCHANGED <<shape, popVars, idVars, metVars>>

NextLoad ==
    \/ TestStep(calls = 0 /\ RunTest(<<"strain", "stress", "load">>, 1, 1))
    \/ TestStep(FillInitial)
    \/ EndMaxLoad
    \/ TestStep(\E s \in LoadStress : MakeStep(s, SolverFinished(time + time_step)))
    \/ TestStep(AdvanceTime)
    \/ TestStep(FillGauges)

SpecLoad == InitLoad /\ [][NextLoad]_vars

IntersectionSum(E, d, strain, stress) ==
    RDiv(RSub(stress, RMul(d, strain)), RAdd(E, d))

\* PiecewiseRateCurveBuilder._store_result: intersection_strain
Intersection(E, d, strain, stress) ==
    RDiv(RSub(stress, RMul(d, strain)), RSub(E, d))

\* PiecewiseRateCurveBuilder._store_result: the result for a candidate d
PiecewiseResult(b, d) ==
    LET x == Intersection(b.initial_derivative, d, reading("strain"), reading("stress"))
    IN  [strain |-> x, stress |-> RMul(x, b.initial_derivative)]

\* PiecewiseRateCurveBuilder._end_condition, lines 113-120: the derivative
CurDerivative(b) ==
    IF b.prev_stress # None
    THEN RDiv(RSub(reading("stress"), b.prev_stress),
              RSub(reading("strain"), b.prev_strain))
    ELSE None

InElasticRegionAgain(b, d) ==
    \/ d = None
    \/ RLt(RMul(b.initial_derivative, b.elastic_region_threshold), d)

\* PiecewiseRateCurveBuilder._end_condition, lines 122-127: still in the
\* elastic region, the finder is not asked
InElasticRegion(b, d) ==
    \/ d = None
    \/ /\ ~b.elastic_region_passed
       /\ RLt(RMul(b.initial_derivative, b.elastic_region_threshold), d)

\* PiecewiseRateCurveBuilder._end_condition, as run_test's end_condition
EndPiecewise ==
    LET d   == CurDerivative(builder)
        b1  == [builder EXCEPT !.prev_stress = reading("stress"),
                               !.prev_strain = reading("strain")]
        f2  == CheckExtrema(finder, d)
        rec == [value |-> d, strain |-> reading("strain"), stress |-> reading("stress")]
    IN  /\ pc = "check"
        /\ IF InElasticRegion(builder, d)
           THEN /\ EndCondition(FALSE)
                /\ builder' = b1
                /\ trail' = Append(trail, [rec EXCEPT !.value = None])
                /\ UNCHANGED <<finVars, popVars, idVars, metVars>>
           ELSE /\ EndCondition(ExtremaReached(f2))
                /\ finder' = f2
                /\ reached' = ExtremaReached(f2)
                /\ builder' = IF IsCandidate(finder, d)
                              THEN [b1 EXCEPT !.elastic_region_passed = TRUE,
                                              !.result = PiecewiseResult(builder, d)]
                              ELSE [b1 EXCEPT !.elastic_region_passed = TRUE]
                /\ trail' = Append(trail, rec)
                /\ UNCHANGED <<shape, popVars, idVars, metVars>>

NextPiece ==
    \/ TestStep(calls = 0 /\ RunTest(<<"strain", "stress">>, 1, 1))
    \/ TestStep(FillInitial)
    \/ EndPiecewise
    \/ TestStep(\E s \in PieceStress : MakeStep(s, SolverFinished(time + time_step)))
    \/ TestStep(AdvanceTime)
    \/ TestStep(FillGauges)

SpecPiece == InitPiece /\ [][NextPiece]_vars

\* ------------------------- VolumeFractionWeightedMicrostructureState
MaxPopSteps == 2     \* macro steps followed
MaxGroups == 3       \* refinement is followed while it leaves at most this many groups

MIN_TRACKABLE_FRACTION == <<1, 100000>>

\* RefinementModel.parameters: combine_grain_groups_size_threshold = 0.05
COMBINE_THRESHOLD == <<1, 20>>

\* RateSensitivityRefinementModel.parameters: reference_refinement_size = 3
REFERENCE_REFINEMENT_SIZE == <<3, 1>>

\* GoncharovRefinementModel: size_coef = 2 * atan(r) / pi with the default r = 1
SIZE_COEF == <<1, 2>>

\* GrainGroup(volume, PlasticMicrostructureState(size, strain)); id stands for
\* the identity of the group object
GrainGroup(volume, size, strain, id) ==
    [volume |-> volume, size |-> size, strain |-> strain, id |-> id]

\* VolumeFractionWeightedMicrostructureState.__init__ of a distribution of
\* <<size, volume>> pairs
NewPopulation(distribution) ==
    [i \in DOMAIN distribution |->
        GrainGroup(distribution[i][2], distribution[i][1], Whole(0), i)]

RECURSIVE SumVolumes(_)
SumVolumes(groups) ==
    IF groups = <<>> THEN Whole(0)
    ELSE RAdd(groups[1].volume, SumVolumes(Tail(groups)))

\* __init__: "abs(total_volume - 1) > MIN_TRACKABLE_FRACTION" raises ValueError
ValidDistribution(distribution) ==
    LET total == SumVolumes(NewPopulation(distribution))
    IN  ~RLt(MIN_TRACKABLE_FRACTION, RAbs(RSub(total, Whole(1))))

\* the distributions the state is constructed from
Distributions ==
    { <<  <<Whole(6), Whole(1)>>  >>,
      <<  <<Rat(77, 25), Rat(1, 4)>>, <<Whole(3), Rat(1, 4)>>, <<Rat(76, 25), Rat(1, 2)>>  >>,
      <<  <<Whole(3), Rat(1, 2)>>, <<Rat(76, 25), Rat(1, 2)>>, <<Whole(4), Rat(1, 200000)>>  >>,
      <<  <<Rat(76, 25), Rat(2, 3)>>, <<Whole(3), Rat(1, 3)>>  >>,
      <<  <<Whole(3), Rat(1, 4)>>, <<Rat(151, 50), Rat(1, 4)>>, <<Rat(76, 25), Rat(1, 2)>>  >>,
      <<  <<Rat(153, 50), Rat(1, 4)>>, <<Whole(3), Rat(1, 4)>>, <<Rat(76, 25), Rat(1, 2)>>  >> }

\* distributions of total volume 1 and 1 + 1/200000 with a group below the
\* floor
DropDistributions ==
    { <<  <<Whole(3), Rat(199999, 200000)>>, <<Whole(4), Rat(1, 200000)>>  >>,
      <<  <<Whole(3), Rat(1, 2)>>, <<Whole(6), Rat(1, 2)>>, <<Whole(4), Rat(1, 200000)>>  >> }

\* the models: without refinement (then without the threshold parameter as
\* well), Ghosh-Raj and Goncharov
PopModels ==
    { [refinement |-> "none", threshold |-> None],
      [refinement |-> "GhoshRaj", threshold |-> COMBINE_THRESHOLD],
      [refinement |-> "Goncharov", threshold |-> COMBINE_THRESHOLD] }

\* what one macro step of integration adds to <<strain, size>> of a group: the
\* integral of the model's strain rate and grain growth rate over the step
Increments == { <<Whole(0), Whole(0)>>, <<Rat(1, 10), Rat(1, 50)>> }

FullStrainAtStart(k) == Rat(k - 1, 10)

\* the specimen's full strain after k macro steps
FullStrain(k) == Rat(k, 10)

\* PlasticMicrostructureState.make_step of one group
IntegrateGroup(g, inc) ==
    [g EXCEPT !.strain = RAdd(@, inc[1]), !.size = RAdd(@, inc[2])]

\* math.sqrt of the square of a rational
RECURSIVE Root(_, _)
Root(n, r) == IF r * r >= n THEN r ELSE Root(n, r + 1)
Sqrt(x) == Rat(Root(x[1], 0), Root(x[2], 0))

\* GhoshRajRefinementModel.get_refined_groups past the rate criterion:
\* q = 0.5 - atan(b * (1 - full_strain / epsilon_c)) / pi lies between 0 and 1
GhoshRajQ == { Rat(3, 4), Rat(5, 9) }

GhoshRajLeaky(g, q, full_strain) ==
    << <<RMul(q, g.volume), REFERENCE_REFINEMENT_SIZE, full_strain>>,
       <<g.volume, RMul(Sqrt(RSub(Whole(1), q)), g.size), g.strain>> >>

GhoshRaj(g, q, full_strain) ==
    << <<RMul(q, g.volume), REFERENCE_REFINEMENT_SIZE, full_strain>>,
       <<RMul(RSub(Whole(1), q), g.volume), RMul(Sqrt(RSub(Whole(1), q)), g.size), g.strain>> >>

\* GoncharovRefinementModel.get_refined_groups past the size criterion:
\* refinement_frac = time_step * s_0 * (size / crit_size) ** theta, None when
\* it is not positive, cut to 1 when it is above 1
GoncharovFrac == { Rat(1, 2), Whole(1) }

Goncharov(g, frac) ==
    << <<RMul(frac, g.volume), RMul(SIZE_COEF, g.size), g.strain>>,
       <<RMul(RSub(Whole(1), frac), g.volume), g.size, g.strain>> >>

\* the answers get_refined_groups may give for a group: None, or the
\* fraction that decides the split
RefinementAnswers(m) ==
    CASE m.refinement = "GhoshRaj"  -> {None} \cup GhoshRajQ
      [] m.refinement = "Goncharov" -> {None} \cup GoncharovFrac
      [] OTHER -> {None}

\* specimen.model.get_refined_groups(...) for a group
get_refined_groups(m, g, answer, full_strain) ==
    IF m.refinement = "GhoshRaj"
    THEN GhoshRaj(g, answer, full_strain)
    ELSE Goncharov(g, answer)

\* _refine_groups, one round of its loop: the groups that take the place of
\* group g, the new ones numbered from id on
RefineGroup(m, g, answer, full_strain, id) ==
    IF answer = None THEN <<g>>
    ELSE LET res == get_refined_groups(m, g, answer, full_strain)
         IN  [k \in DOMAIN res |-> GrainGroup(res[k][1], res[k][2], res[k][3], id + k - 1)]

\* _refine_groups: per group of the population, the groups that replace it
RECURSIVE RefineGroups(_, _, _, _, _)
RefineGroups(m, groups, answers, full_strain, id) ==
    IF groups = <<>> THEN <<>>
    ELSE LET part == RefineGroup(m, groups[1], answers[1], full_strain, id)
             next == IF answers[1] = None THEN id ELSE id + Len(part)
         IN  <<part>> \o RefineGroups(m, Tail(groups), Tail(answers), full_strain, next)

RECURSIVE Flatten(_)
Flatten(parts) == IF parts = <<>> THEN <<>> ELSE parts[1] \o Flatten(Tail(parts))

\* sorted(self.grain_groups, key=lambda group: group.state.size): stable
RECURSIVE InsertBySize(_, _)
InsertBySize(sorted, g) ==
    IF sorted = <<>> THEN <<g>>
    ELSE IF RLt(g.size, Last(sorted).size)
         THEN Append(InsertBySize(SubSeq(sorted, 1, Len(sorted) - 1), g), Last(sorted))
         ELSE Append(sorted, g)

RECURSIVE SortBySize(_)
SortBySize(groups) ==
    IF groups = <<>> THEN <<>>
    ELSE InsertBySize(SortBySize(SubSeq(groups, 1, Len(groups) - 1)), Last(groups))

AbsorbUnweighted(t, g) ==
    [t EXCEPT !.volume = RAdd(t.volume, g.volume),
              !.strain = RDiv(RAdd(t.strain, g.strain), Whole(2)),
              !.size = RDiv(RAdd(t.size, g.size), Whole(2))]

\* _combine_groups, lines 192-199: group g is combined into target group t
Absorb(t, g) ==
    LET new_volume == RAdd(t.volume, g.volume)
        mean(a, b) == RDiv(RAdd(RMul(t.volume, a), RMul(g.volume, b)), new_volume)
    IN  [t EXCEPT !.volume = new_volume,
                  !.strain = mean(t.strain, g.strain),
                  !.size = mean(t.size, g.size)]

CombineTargetOfOwnSize(g, threshold) ==
    [group |-> g, original_size |-> g.size,
     size_threshold |-> g.size, members |-> <<g>>]

\* CombineTarget(group, original_size, size_threshold); members lists the
\* groups combined into the target so far, as they were
CombineTarget(g, threshold) ==
    [group |-> g, original_size |-> g.size,
     size_threshold |-> RAdd(g.size, threshold), members |-> <<g>>]

\* what the loop of _combine_groups holds before any group
NoneCombined == [new_grain_groups |-> <<>>, combine_target |-> <<>>]

CombineStepKeeping(acc, g, threshold) ==
    IF RLt(g.volume, MIN_TRACKABLE_FRACTION) THEN acc
    ELSE LET flushed ==
                 IF acc.combine_target # <<>>
                    /\ RLt(acc.combine_target[1].size_threshold, g.size)
                 THEN [new_grain_groups |->
                           Append(acc.new_grain_groups, acc.combine_target[1]),
                       combine_target |-> <<>>]
                 ELSE acc
         IN  IF flushed.combine_target = <<>>
             THEN [flushed EXCEPT !.combine_target = <<CombineTarget(g, threshold)>>]
             ELSE [flushed EXCEPT
                      !.new_grain_groups = Append(@, CombineTarget(g, threshold)),
                      !.combine_target[1].group = Absorb(@, g),
                      !.combine_target[1].members = Append(@, g)]

CombineStepSliding(acc, g, threshold) ==
    IF RLt(g.volume, MIN_TRACKABLE_FRACTION) THEN acc
    ELSE LET flushed ==
                 IF acc.combine_target # <<>>
                    /\ RLt(RAdd(acc.combine_target[1].group.size, threshold), g.size)
                 THEN [new_grain_groups |->
                           Append(acc.new_grain_groups, acc.combine_target[1]),
                       combine_target |-> <<>>]
                 ELSE acc
         IN  IF flushed.combine_target = <<>>
             THEN [flushed EXCEPT !.combine_target = <<CombineTarget(g, threshold)>>]
             ELSE [flushed EXCEPT
                      !.combine_target[1].group = Absorb(@, g),
                      !.combine_target[1].members = Append(@, g)]

CombineStepAbsorbingSmall(acc, g, threshold) ==
    LET flushed ==
            IF acc.combine_target # <<>>
               /\ RLt(acc.combine_target[1].size_threshold, g.size)
               /\ ~RLt(g.volume, MIN_TRACKABLE_FRACTION)
            THEN [new_grain_groups |->
                      Append(acc.new_grain_groups, acc.combine_target[1]),
                  combine_target |-> <<>>]
            ELSE acc
    IN  IF flushed.combine_target = <<>>
        THEN [flushed EXCEPT !.combine_target = <<CombineTarget(g, threshold)>>]
        ELSE [flushed EXCEPT
                 !.combine_target[1].group = Absorb(@, g),
                 !.combine_target[1].members = Append(@, g)]

\* _combine_groups, one round of its loop, lines 166-199
CombineStep(acc, g, threshold) ==
    IF RLt(g.volume, MIN_TRACKABLE_FRACTION) THEN acc
    ELSE LET flushed ==
                 IF acc.combine_target # <<>>
                    /\ RLt(acc.combine_target[1].size_threshold, g.size)
                 THEN [new_grain_groups |->
                           Append(acc.new_grain_groups, acc.combine_target[1]),
                       combine_target |-> <<>>]
                 ELSE acc
         IN  IF flushed.combine_target = <<>>
             THEN [flushed EXCEPT !.combine_target = <<CombineTarget(g, threshold)>>]
             ELSE [flushed EXCEPT
                      !.combine_target[1].group = Absorb(@, g),
                      !.combine_target[1].members = Append(@, g)]

RECURSIVE CombineLoop(_, _, _)
CombineLoop(acc, sorted, threshold) ==
    IF sorted = <<>> THEN acc
    ELSE CombineLoop(CombineStep(acc, sorted[1], threshold), Tail(sorted), threshold)

\* _combine_groups: the targets in the order they are appended, each with the
\* groups combined into it
CombineGroups(groups, threshold) ==
    LET acc == CombineLoop(NoneCombined, SortBySize(groups), threshold)
    IN  acc.new_grain_groups \o acc.combine_target

GroupsOf(targets) == [j \in DOMAIN targets |-> targets[j].group]

\* the ids in use
MaxId(groups) ==
    LET ids == {groups[i].id : i \in DOMAIN groups}
    IN  IF ids = {} THEN 0 ELSE CHOOSE m \in ids : \A k \in ids : k <= m

\* the properties a gauge may name that PlasticMicrostructureState.calc_property
\* answers from model_state
Properties == {"time", "plastic_strain", "grain_size"}

\* PlasticMicrostructureState.calc_property of the state of group g, the
\* specimen's time being t
StateProperty(g, property, t) ==
    CASE property = "time"           -> Whole(t)
      [] property = "plastic_strain" -> g.strain
      [] property = "grain_size"     -> g.size

\* VolumeFractionWeightedMicrostructureState.calc_property:
\* sum(group.volume * group.state.calc_property(property, specimen))
RECURSIVE calc_property(_, _, _)
calc_property(groups, property, t) ==
    IF groups = <<>> THEN Whole(0)
    ELSE RAdd(RMul(groups[1].volume, StateProperty(groups[1], property, t)),
              calc_property(Tail(groups), property, t))

InitPopulation ==
    /\ InitSpecimen /\ InitIdent /\ InitMetrics /\ InitFinder /\ InitBuilder
    /\ popModel \in PopModels
    /\ \E d \in Distributions :
          /\ ValidDistribution(d)
          /\ grain_groups = NewPopulation(d)
    /\ popStep = None
    /\ popSteps = 0

\* VolumeFractionWeightedMicrostructureState.make_step: integrate every
\* group, refine if the model has get_refined_groups, combine if it has
\* combine_grain_groups_size_threshold
PopMakeStep ==
    /\ popSteps < MaxPopSteps
    /\ \E inc \in Increments,
          answers \in [DOMAIN grain_groups -> RefinementAnswers(popModel)] :
          LET integrated == [i \in DOMAIN grain_groups |->
                                IntegrateGroup(grain_groups[i], inc)]
              parts == IF popModel.refinement # "none"
                       THEN RefineGroups(popModel, integrated, answers,
                                         FullStrain(popSteps + 1), MaxId(grain_groups) + 1)
                       ELSE [i \in DOMAIN integrated |-> <<integrated[i]>>]
              refined == Flatten(parts)
              targets == IF popModel.threshold # None
                         THEN CombineGroups(refined, popModel.threshold)
                         ELSE [i \in DOMAIN refined |->
                                  [group |-> refined[i], members |-> <<refined[i]>>]]
          IN  /\ Len(refined) <= MaxGroups
              /\ grain_groups' = GroupsOf(targets)
              /\ popStep' = [before |-> grain_groups, integrated |-> integrated,
                             answers |-> answers, parts |-> parts, refined |-> refined,
                             targets |-> targets]
    /\ popSteps' = popSteps + 1
    /\ UNCHANGED popModel

NextPop == PopMakeStep /\ UNCHANGED <<runVars, bookVars, finVars, bldVars, idVars, metVars>>

SpecPop == InitPopulation /\ [][NextPop]_vars

\* the same steps on the populations that hold a group below the floor
InitDrop ==
    /\ InitSpecimen /\ InitIdent /\ InitMetrics /\ InitFinder /\ InitBuilder
    /\ popModel \in PopModels
    /\ \E d \in DropDistributions :
          /\ ValidDistribution(d)
          /\ grain_groups = NewPopulation(d)
    /\ popStep = None
    /\ popSteps = 0

SpecDrop == InitDrop /\ [][NextPop]_vars

\* ------------------------------------------------ SuperplasticityModel
\* a declared parameter: required (default None) or with a default value
Required == [required |-> TRUE, default |-> 0]
Default(v) == [required |-> FALSE, default |-> v]

\* the classes: NormalizedModel, PerzinaDeformationModel, and the DunneModel
\* of the samples (ElasticStressModel with HardeningModel, GrainGrowthModel
\* and SinhDeformationModel of lin_dunne.py)
ModelClasses == {"NormalizedModel", "DunneModel", "PerzinaDeformationModel"}

\* _collect_parameters: the parameters attributes of the classes of the mro
\* below SuperplasticityModel, merged
NormalizedParameters ==
    [name \in {"reference_rate", "yield_stress"} |-> Required]

DunneParameters ==
    [name \in {"normalized_young_modulus", "H_0", "H", "D", "G", "beta", "phi",
               "A", "B", "alpha"} |->
        IF name = "normalized_young_modulus" THEN Required
        ELSE IF name \in {"H", "beta", "phi", "alpha"} THEN Default(1)
        ELSE Default(0)]

PerzinaParameters ==
    [name \in {"A", "alpha", "nu"} |->
        IF name = "A" THEN Default(0) ELSE Default(1)]

collect_parameters(cls) ==
    CASE cls = "NormalizedModel" -> NormalizedParameters
      [] cls = "DunneModel" -> NormalizedParameters @@ DunneParameters
      [] cls = "PerzinaDeformationModel" -> NormalizedParameters @@ PerzinaParameters

\* names getattr finds on the class rather than in the object's __dict__
ClassAttributes == {"parameters", "to_dict", "ensure_physical_ranges"}

\* the values given to parameters
ParamValues == {-2, 1, 3}

\* the keyword arguments a model is constructed from: reference_rate and
\* normalized_young_modulus always, and any of a required, a defaulted and
\* an undeclared name
KwargSets ==
    UNION { { [name \in {"reference_rate", "normalized_young_modulus"} |-> 1] @@ given :
                  given \in [names -> ParamValues] } :
                names \in SUBSET {"yield_stress", "nu", "bogus"} }

\* __init__, lines 32-38: a parameter is None after the kwargs were taken
MissingRequired(cls, kwargs) ==
    \E name \in DOMAIN collect_parameters(cls) :
        collect_parameters(cls)[name].required /\ name \notin DOMAIN kwargs

\* __init__, lines 31-44, when it does not raise: the object holds the
\* declared parameters, from kwargs or by default
NewModel(cls, kwargs) ==
    [cls |-> cls,
     dict |-> [name \in DOMAIN collect_parameters(cls) |->
                  IF name \in DOMAIN kwargs THEN kwargs[name]
                  ELSE collect_parameters(cls)[name].default]]

HasAnyAttr(m, name) == TRUE

\* FrozenObject.__setattr__, line 25: getattr(self, name) finds the name
HasAttr(m, name) == name \in DOMAIN m.dict \/ name \in ClassAttributes

\* FrozenObject.__setattr__, line 26: super().__setattr__(name, value)
SetAttr(m, name, value) ==
    [m EXCEPT !.dict = [n \in DOMAIN m.dict \cup {name} |->
                           IF n = name THEN value ELSE m.dict[n]]]

to_dict_of_all(m) == m.dict

\* to_dict: the parameters whose value differs from the default; a number
\* always differs from the None of a required parameter
to_dict(m) ==
    LET params == collect_parameters(m.cls)
        names == {name \in DOMAIN params :
                     params[name].required \/ m.dict[name] # params[name].default}
    IN  [name \in names |-> m.dict[name]]

\* SuperplasticityModel(**kwargs) of class cls
Construct(cls, kwargs) ==
    /\ model.cls = "none" /\ modelOp.op = "none"
    /\ model' = IF MissingRequired(cls, kwargs) THEN model ELSE NewModel(cls, kwargs)
    /\ modelOp' = [op |-> "init", cls |-> cls, name |-> "", value |-> 0,
                   kwargs |-> kwargs, raised |-> MissingRequired(cls, kwargs),
                   before |-> model, sets |-> 0]
    /\ UNCHANGED <<rebuilt, ident, stages>>

\* model.name = value
Assign(name, value) ==
    /\ model.cls # "none" /\ rebuilt.cls = "none"
    /\ modelOp.sets < MaxSets
    /\ model' = IF HasAttr(model, name) THEN SetAttr(model, name, value) ELSE model
    /\ modelOp' = [op |-> "setattr", cls |-> model.cls, name |-> name, value |-> value,
                   kwargs |-> <<>>, raised |-> ~HasAttr(model, name),
                   before |-> model, sets |-> modelOp.sets + 1]
    /\ UNCHANGED <<rebuilt, ident, stages>>

\* model.__class__(**model.to_dict())
RoundTrip ==
    /\ model.cls # "none" /\ rebuilt.cls = "none"
    /\ rebuilt' = IF MissingRequired(model.cls, to_dict(model)) THEN rebuilt
                  ELSE NewModel(model.cls, to_dict(model))
    /\ modelOp' = [op |-> "to_dict", cls |-> model.cls, name |-> "", value |-> 0,
                   kwargs |-> to_dict(model),
                   raised |-> MissingRequired(model.cls, to_dict(model)),
                   before |-> model, sets |-> modelOp.sets]
    /\ UNCHANGED <<model, ident, stages>>

NextModel ==
    /\ \/ \E cls \in ModelClasses, kwargs \in KwargSets : Construct(cls, kwargs)
       \/ \E name \in {"yield_stress", "nu", "bogus", "parameters"}, value \in ParamValues :
             Assign(name, value)
       \/ RoundTrip
    /\ UNCHANGED <<runVars, bookVars, finVars, bldVars, popVars, metVars>>

SpecModel == Init /\ [][NextModel]_vars

\* ------------------------------------------------ identification
\* SuperplasticityModel.PhysicalRangePolicy
Policies == {"ignore", "cutoff", "invert", "raise"}

\* find_optimal_params: physical_range_policy = PhysicalRangePolicy.INVERT
DEFAULT_POLICY == "invert"

\* the body of the loop of SuperplasticityModel.ensure_physical_ranges when
\* it does not raise
Ranged(value, policy) ==
    IF value < 0
    THEN CASE policy = "cutoff" -> 0
           [] policy = "invert" -> -value
           [] OTHER -> value
    ELSE value

\* PerzinaDeformationModel.ensure_physical_ranges, its own part, when it
\* does not raise
NuRanged(nu, policy) ==
    IF nu < 1
    THEN CASE policy = "cutoff" -> 1
           [] policy = "invert" -> 1 + (1 - nu)
           [] OTHER -> nu
    ELSE nu

\* the override of the class, applied before the base method
RangedByClass(m, policy) ==
    IF m.cls = "PerzinaDeformationModel"
    THEN SetAttr(m, "nu", NuRanged(m.dict["nu"], policy))
    ELSE m

\* model.ensure_physical_ranges(policy) raises ValueError
EnsureRaises(m, policy) ==
    /\ policy = "raise"
    /\ \/ m.cls = "PerzinaDeformationModel" /\ m.dict["nu"] < 1
       \/ \E name \in DOMAIN collect_parameters(m.cls) : m.dict[name] < 0

ensure_nothing(m, policy) == m

\* model.ensure_physical_ranges(policy) when it does not raise
ensure_physical_ranges(m, policy) ==
    LET own == RangedByClass(m, policy)
    IN  [own EXCEPT !.dict =
            [name \in DOMAIN own.dict |->
                IF name \in DOMAIN collect_parameters(own.cls)
                THEN Ranged(own.dict[name], policy)
                ELSE own.dict[name]]]

\* _update_model, lines 38-39: setattr(model, param, value) over zip
SetParams(m, params, values) ==
    [m EXCEPT !.dict =
        [name \in DOMAIN m.dict |->
            IF \E i \in DOMAIN params : params[i] = name
            THEN values[CHOOSE i \in DOMAIN params : params[i] = name]
            ELSE m.dict[name]]]

\* _update_model as a whole: the model it leaves
update_model(m, params, values, policy) ==
    IF EnsureRaises(SetParams(m, params, values), policy)
    THEN SetParams(m, params, values)
    ELSE ensure_physical_ranges(SetParams(m, params, values), policy)

\* the classes identified, the models identification starts from
IdentClasses == {"DunneModel", "PerzinaDeformationModel"}

IdentModels ==
    { NewModel(cls, [name \in {"reference_rate", "yield_stress",
                               "normalized_young_modulus"} |->
                        IF name = "yield_stress" THEN y ELSE 1]) :
        cls \in IdentClasses, y \in {-2, 1} }

\* the parameter groups identify_model is called with: those of
\* samples/1_identify-model.py for the DunneModel
MainParams(cls) ==
    IF cls = "DunneModel" THEN <<"A", "B", "alpha">> ELSE <<"nu">>

OtherGroups(cls) ==
    IF cls = "DunneModel"
    THEN <<(<<"H_0", "H">>), (<<"normalized_young_modulus">>), (<<"reference_rate">>)>>
    ELSE <<(<<"A">>), (<<"alpha">>), (<<"reference_rate">>)>>

GrainGrowthParams(cls) ==
    IF cls = "DunneModel" THEN <<"D", "G", "beta", "phi">> ELSE <<>>

\* the calls of identify_model: rate curves or not, grain growth curves or
\* not, grain growth parameters or not (a class without them has neither),
\* the first others groups of the class, and kwargs: empty ("none") or
\* physical_range_policy alone
IdentArgs(cls) ==
    [ rate : BOOLEAN,
      grain_growth_curves : IF cls = "DunneModel" THEN BOOLEAN ELSE {FALSE},
      grain_growth_params : IF cls = "DunneModel" THEN {<<>>, GrainGrowthParams(cls)}
                            ELSE {<<>>},
      others : 0 .. MaxOther,
      kwargs : Policies \cup {"none"} ]

\* the values leastsq tries: one value for every parameter of the vector
TrialValues == {-2, 0, 3}

TrialVectors(n) == { [i \in 1 .. n |-> v] : v \in TrialValues }

\* the vector of the next evaluation: leastsq evaluates its x0 first
FirstOrTrial ==
    IF ident.trials = 0 THEN {ident.x0} ELSE TrialVectors(Len(ident.params))

\* tuple(getattr(model, param) for param in params)
StartValuesInitial(m, params) == [i \in DOMAIN params |-> ident.initial.dict[params[i]]]

StartValues(m, params) == [i \in DOMAIN params |-> m.dict[params[i]]]

\* identify_model, lines 93-100
IdentifyModel(m, args) ==
    /\ ident.pc = "none" /\ model.cls = "none" /\ modelOp.op = "none"
    /\ model' = m
    /\ ident' = [NoCall EXCEPT
                    !.pc = IF args.grain_growth_curves # (args.grain_growth_params # <<>>)
                           THEN "ValueError" ELSE "between",
                    !.at = "rate", !.args = args, !.initial = m, !.raw = m]
    /\ UNCHANGED <<modelOp, rebuilt, stages>>
    /\ UNCHANGED <<runVars, bookVars>>

\* find_optimal_approximation(model, params, curves, **kwargs) up to the call
\* of leastsq in find_optimal_params
BeginStage(kind, params, next, num) ==
    LET policy == IF ident.args.kwargs = "none" THEN DEFAULT_POLICY
                  ELSE ident.args.kwargs
    IN  /\ ident' = [ident EXCEPT !.pc = "leastsq", !.at = next, !.num = num,
                                  !.kind = kind, !.params = params,
                                  !.policy = policy, !.trials = 0,
                                  !.x0 = StartValues(model, params)]
        /\ stages' = Append(stages, [kind |-> kind, params |-> params,
                                     policy |-> policy,
                                     x0 |-> StartValues(model, params),
                                     from |-> model, to |-> model, done |-> FALSE])

\* find_optimal_approximation(model, params, curves, *kwargs), line 110: the
\* names of kwargs are passed as further positional arguments
BeginGrainStage ==
    IF ident.args.kwargs = "none"
    THEN BeginStage("grain", ident.args.grain_growth_params, "other", 0)
    ELSE /\ ident' = [ident EXCEPT !.pc = "TypeError"]
         /\ UNCHANGED stages

\* lines 113-115: params = list(main_params), extended by every group so far
RECURSIVE StageParams(_, _)
StageParams(cls, num) ==
    IF num = 0 THEN MainParams(cls)
    ELSE StageParams(cls, num - 1) \o OtherGroups(cls)[num]

\* identify_model between two stages, lines 102-118
Proceed ==
    /\ ident.pc = "between"
    /\ CASE ident.at = "rate" ->
              IF ident.args.rate
              THEN BeginStage("rate", MainParams(model.cls), "strain", 0)
              ELSE BeginStage("strain", MainParams(model.cls), "grain", 0)
         [] ident.at = "strain" ->
              BeginStage("strain", MainParams(model.cls), "grain", 0)
         [] ident.at = "grain" ->
              IF ident.args.grain_growth_curves
              THEN BeginGrainStage
              ELSE IF ident.args.others > 0
              THEN BeginStage("strain", StageParams(model.cls, 1), "other", 1)
              ELSE ident' = [ident EXCEPT !.pc = "returned"] /\ UNCHANGED stages
         [] ident.at = "other" ->
              IF ident.num < ident.args.others
              THEN BeginStage("strain", StageParams(model.cls, ident.num + 1),
                              "other", ident.num + 1)
              ELSE ident' = [ident EXCEPT !.pc = "returned"] /\ UNCHANGED stages
    /\ UNCHANGED <<model, modelOp, rebuilt>>
    /\ UNCHANGED <<runVars, bookVars>>

\* the gauges of the curve built for a stage: MaxLoadRateCurveBuilder,
\* build_strain_curve, build_grain_growth_curve
CurveGauges(kind) ==
    CASE kind = "rate" -> <<"strain", "stress", "load">>
      [] kind = "strain" -> <<"strain", "stress">>
      [] kind = "grain" -> <<"time", "grain_size">>

UpdatesAnytime == ident.pc \in {"leastsq", "functional"}

\* leastsq holds the control: it is not inside the functional
Updates == ident.pc = "leastsq"

\* _get_distances(values): _update_model, then functional() up to the entry
\* of run_test on the new Specimen of the factory
Trial(values) ==
    /\ Updates
    /\ ident.trials < MaxTrials
    /\ model' = update_model(model, ident.params, values, ident.policy)
    /\ IF EnsureRaises(SetParams(model, ident.params, values), ident.policy)
       THEN /\ ident' = [ident EXCEPT !.pc = "ValueError", !.x = values,
                                      !.raw = SetParams(model, ident.params, values),
                                      !.updates = 1]
            /\ UNCHANGED <<runVars, bookVars>>
       ELSE /\ ident' = [ident EXCEPT !.pc = "functional", !.x = values,
                                      !.raw = SetParams(model, ident.params, values),
                                      !.updates = 1]
            /\ time' = 0
            /\ micro' = [upto |-> 0, stress |-> Whole(0)]
            /\ gdata' = [g \in GaugeIds |-> <<>>]
            /\ glast' = [g \in GaugeIds |-> NoUpdate]
            /\ gstate' = NoEnergy
            /\ test_program' = 1
            /\ gauges' = CurveGauges(ident.kind)
            /\ time_step' = 1
            /\ pc' = "fill0"
            /\ gi' = 1
            /\ calls' = 1
            /\ iters' = 0
            /\ nMake' = 0
            /\ nEval' = 0
            /\ nStore' = [g \in GaugeIds |-> 0]
            /\ entry' = [time |-> 0, micro |-> [upto |-> 0, stress |-> Whole(0)],
                         gdata |-> [g \in GaugeIds |-> <<>>],
                         glast |-> [g \in GaugeIds |-> NoUpdate]]
            /\ sumIters' = [g \in GaugeIds |-> 0]
    /\ UNCHANGED <<modelOp, rebuilt, stages>>

\* the end condition of the curve built: the builder's finder for a rate
\* curve (any answer, the test followed up to MaxTime), the last reading of
\* the first gauge against the curve's largest abscissa for the others
CurveEndCondition ==
    IF ident.kind = "rate"
    THEN \E b \in (IF time + time_step > MaxTime THEN {TRUE} ELSE BOOLEAN) :
            EndCondition(b)
    ELSE EndCondition(RLe(Whole(MaxStrain), reading(gauges[1])))

\* a step of run_test inside the functional
Simulate(A) ==
    /\ ident.pc = "functional"
    /\ A
    /\ UNCHANGED <<idVars, metVars>>

\* functional() returns to leastsq; the Specimen of the test is dropped
FunctionalReturns ==
    /\ ident.pc = "functional"
    /\ pc = "idle"
    /\ ident' = [ident EXCEPT !.pc = "leastsq", !.trials = @ + 1]
    /\ time' = 0
    /\ micro' = [upto |-> 0, stress |-> Whole(0)]
    /\ gdata' = [g \in GaugeIds |-> <<>>]
    /\ glast' = [g \in GaugeIds |-> NoUpdate]
    /\ gstate' = NoEnergy
    /\ test_program' = 0
    /\ gauges' = <<>>
    /\ time_step' = 0
    /\ gi' = 0
    /\ calls' = 0
    /\ iters' = 0
    /\ nMake' = 0
    /\ nEval' = 0
    /\ nStore' = [g \in GaugeIds |-> 0]
    /\ entry' = None
    /\ sumIters' = [g \in GaugeIds |-> 0]
    /\ UNCHANGED <<pc, model, modelOp, rebuilt, stages>>

\* leastsq returns result; _update_model(result[0]), line 53, and the return
\* to identify_model
Finish(result) ==
    /\ Updates
    /\ ident.trials > 0
    /\ model' = update_model(model, ident.params, result, ident.policy)
    /\ IF EnsureRaises(SetParams(model, ident.params, result), ident.policy)
       THEN /\ ident' = [ident EXCEPT !.pc = "ValueError", !.x = result,
                                      !.raw = SetParams(model, ident.params, result)]
            /\ UNCHANGED stages
       ELSE /\ ident' = [ident EXCEPT !.pc = "between", !.x = result,
                                      !.raw = SetParams(model, ident.params, result)]
            /\ stages' = [stages EXCEPT ![Len(stages)] =
                             [@ EXCEPT !.to = update_model(model, ident.params, result,
                                                           ident.policy),
                                       !.done = TRUE]]
    /\ UNCHANGED <<modelOp, rebuilt>>
    /\ UNCHANGED <<runVars, bookVars>>

NextIdent ==
    /\ \/ /\ ident.pc = "none"
          /\ \E m \in IdentModels : \E args \in IdentArgs(m.cls) : IdentifyModel(m, args)
       \/ Proceed
       \/ \E values \in FirstOrTrial : Trial(values)
       \/ Simulate(FillInitial)
       \/ Simulate(CurveEndCondition)
       \/ Simulate(MakeStep(StressAt(time + time_step), SolverFinished(time + time_step)))
       \/ Simulate(AdvanceTime)
       \/ Simulate(FillGauges)
       \/ FunctionalReturns
       \/ \E result \in TrialVectors(Len(ident.params)) \cup {ident.x0} : Finish(result)
    /\ UNCHANGED <<finVars, bldVars, popVars, metVars>>

SpecIdent == Init /\ [][NextIdent]_vars

\* ------------------------------------------------------ get_model_metrics
\* (models/metrics.py), with the curves of curves/curves.py; a point is a
\* pair <<abscissa, ordinate>> of rationals, a curve a sequence of points
\* sorted by abscissa, and the key of the k-th curve of a set is k
MaxCurves == 2       \* curves of the reference set

Percent == 100

\* ErrorMetric.AVG, ErrorMetric.MAX and a value that is neither
MetricTypes == {"avg", "max", "other"}

\* the classes of curve sets get_model_metrics is called with
CurveSetClasses == {"StrainCurves", "RateCurves"}

\* the readings of the strain and stress gauges in the test of the model with
\* the key k; the first ones are taken at time 0, where the strain is
\* strain_rate * 0 and ElasticStressModel.get_stress is
\* normalized_young_modulus * (full_strain - plastic_strain) = 0
FullPrediction(k) ==
    << <<Whole(0), Whole(0)>>, <<Whole(2), Whole(4 * k)>>,
       <<Whole(4), Whole(4 * k + 2)>> >>

\* the number of readings taken until "strain_gauge.reading >= max_strain"
RECURSIVE FirstReaching(_, _, _)
FirstReaching(curve, max_strain, n) ==
    IF n >= Len(curve) \/ RLe(max_strain, curve[n][1])
    THEN n
    ELSE FirstReaching(curve, max_strain, n + 1)

\* build_strain_curve(key.rate, max_strain, make_specimen_factory(model, key.size))
StrainCurveOfModel(k, max_strain) ==
    SubSeq(FullPrediction(k), 1, FirstReaching(FullPrediction(k), max_strain, 1))

\* max(...) of a non-empty sequence of rationals
RECURSIVE MaxOf(_)
MaxOf(seq) ==
    IF Len(seq) = 1
    THEN seq[1]
    ELSE LET rest == MaxOf(Tail(seq))
         IN  IF RLt(seq[1], rest) THEN rest ELSE seq[1]

\* sum(...) of a sequence of rationals
RECURSIVE SumOf(_)
SumOf(seq) == IF seq = <<>> THEN Whole(0) ELSE RAdd(seq[1], SumOf(Tail(seq)))

\* the binary search of linear_approx between the points left and right
RECURSIVE Bisect(_, _, _, _)
Bisect(curve, base, left, right) ==
    IF right - left > 1
    THEN LET mid == (left + right) \div 2
         IN  IF RLt(curve[mid][1], base)
             THEN Bisect(curve, base, mid, right)
             ELSE Bisect(curve, base, left, mid)
    ELSE <<left, right>>

\* LinearlyApproximatedCurve.linear_approx; None stands for the ValueError
linear_approx(curve, base) ==
    IF RLt(base, curve[1][1]) \/ RLt(curve[Len(curve)][1], base)
    THEN None
    ELSE LET found == Bisect(curve, base, 1, Len(curve))
             left == found[1]
             right == found[2]
         IN  IF left = right
             THEN curve[left][2]
             ELSE LET coef == RDiv(RSub(base, curve[left][1]),
                                   RSub(curve[right][1], curve[left][1]))
                  IN  RAdd(RMul(coef, curve[right][2]),
                           RMul(RSub(Whole(1), coef), curve[left][2]))

\* iter_model_stresses(model, key, curve)
iter_model_stresses(k, curve) ==
    LET model_curve ==
            StrainCurveOfModel(k, MaxOf([i \in 1..Len(curve) |-> curve[i][1]]))
    IN  [i \in 1..Len(curve) |-> linear_approx(model_curve, curve[i][1])]

\* "abs((approx - orig_pt[1]) / orig_pt[1])" of every point of the curve
Diffs(curve, model_stresses) ==
    [i \in 1..Len(curve) |->
        RAbs(RDiv(RSub(model_stresses[i], curve[i][2]), curve[i][2]))]

\* a division of Diffs raises ZeroDivisionError
DivisionByZero(curve) == \E i \in 1..Len(curve) : curve[i][2][1] = 0

WeightOfPoints(metric_type, curve) == Len(curve)

\* lines 122-125: cur_metric and cur_weight
cur_metric(metric_type, diffs) ==
    IF metric_type = "max" THEN MaxOf(diffs) ELSE SumOf(diffs)

cur_weight(metric_type, curve) ==
    IF metric_type = "max" THEN 1 ELSE Len(curve)

\* lines 112-113: "if not isinstance(reference_curves, StrainCurves): raise"
MetricsEnter ==
    /\ metrics.pc = "called"
    /\ metrics' = IF metrics.kind # "StrainCurves"
                  THEN [metrics EXCEPT !.pc = "raised", !.error = "TypeError"]
                  ELSE [metrics EXCEPT !.pc = "loop", !.index = 1]

\* one round of the loop over the curves, lines 116-130
MetricsCurve ==
    /\ metrics.pc = "loop"
    /\ metrics.index <= Len(metrics.reference)
    /\ LET curve == metrics.reference[metrics.index]
           model_stresses == iter_model_stresses(metrics.index, curve)
       IN  metrics' =
               IF \E i \in 1..Len(curve) : model_stresses[i] = None
               THEN [metrics EXCEPT !.pc = "raised", !.error = "ValueError"]
               ELSE IF metrics.metric_type \notin {"avg", "max"}
               THEN [metrics EXCEPT !.pc = "raised", !.error = "ValueError"]
               ELSE IF DivisionByZero(curve)
               THEN [metrics EXCEPT !.pc = "raised", !.error = "ZeroDivisionError"]
               ELSE LET m == cur_metric(metrics.metric_type, Diffs(curve, model_stresses))
                        w == cur_weight(metrics.metric_type, curve)
                    IN  [metrics EXCEPT
                            !.values = Append(@, RDiv(RMul(Whole(Percent), m), Whole(w))),
                            !.sum_metric = RAdd(@, m),
                            !.sum_weight = @ + w,
                            !.index = @ + 1]

\* line 131: "metrics[None] = 100 * sum_metric / sum_weight" and the return
MetricsReturn ==
    /\ metrics.pc = "loop"
    /\ metrics.index > Len(metrics.reference)
    /\ metrics' =
           IF metrics.sum_weight = 0
           THEN [metrics EXCEPT !.pc = "raised", !.error = "ZeroDivisionError"]
           ELSE [metrics EXCEPT
                    !.pc = "returned",
                    !.pooled = RDiv(RMul(Whole(Percent), metrics.sum_metric),
                                    Whole(metrics.sum_weight))]

\* the reference curves of the key k: the model's own strain curve, built to
\* the strain 4 and to the strain 2, the same without its first point, and
\* curves of one, two and three points off the model's
RefCurves(k) ==
    { FullPrediction(k),
      StrainCurveOfModel(k, Whole(2)),
      Tail(FullPrediction(k)),
      << <<Whole(3), Whole(4)>> >>,
      << <<Whole(1), Whole(-2)>> >>,
      << <<Whole(1), Whole(4)>>, <<Whole(2), Whole(5)>> >>,
      << <<Whole(1), Whole(1)>>, <<Whole(2), Whole(4)>>, <<Whole(3), Whole(10)>> >> }

ReferenceSets ==
    UNION { { r \in [1..n -> UNION { RefCurves(k) : k \in 1..n }] :
                \A k \in 1..n : r[k] \in RefCurves(k) } : n \in 0..MaxCurves }

InitCalled ==
    /\ InitSpecimen /\ InitIdent /\ InitFinder /\ InitBuilder /\ InitPop
    /\ \E kind \in CurveSetClasses, t \in MetricTypes, r \in ReferenceSets :
           metrics = [NoMetrics EXCEPT !.pc = "called", !.kind = kind,
                                       !.metric_type = t, !.reference = r]

NextMetrics ==
    /\ \/ MetricsEnter
       \/ MetricsCurve
       \/ MetricsReturn
    /\ UNCHANGED <<runVars, bookVars, finVars, bldVars, popVars, idVars>>

SpecMetrics == InitCalled /\ [][NextMetrics]_vars

\* ------------------------------------------------------------------
\* Claims about Specimen.run_test
Returned == pc = "idle" /\ calls > 0

StepReadings(n) == \A g \in GaugeIds : Listed(g) => nStore[g] = n

\* C1: every iteration of run_test's loop is make_step at the step's start
\* time, then time += time_step, then one store_reading per listed gauge in
\* list order, then the next end_condition evaluation; after n iterations
\* make_step ran n times, every gauge got n step readings and end_condition
\* was evaluated n + 1 times.
C1_StepOrder ==
    /\ pc = "check" =>
          /\ nMake = iters /\ nEval = iters /\ StepReadings(iters)
          /\ micro.upto = time
    /\ pc = "step" =>
          /\ nMake = iters /\ nEval = iters + 1 /\ StepReadings(iters)
          /\ micro.upto = time
    /\ pc = "advance" =>
          /\ nMake = iters + 1 /\ nEval = iters + 1 /\ StepReadings(iters)
          /\ micro.upto = time + time_step
    /\ pc = "fill" =>
          /\ nMake = iters + 1 /\ nEval = iters + 1
          /\ micro.upto = time
          /\ \A k \in DOMAIN gauges :
                /\ nStore[gauges[k]] = IF k < gi THEN iters + 1 ELSE iters
                /\ k < gi => glast[gauges[k]] = time
    /\ pc \in {"check", "step", "idle"} /\ calls > 0 =>
          time = entry.time + iters * time_step
    /\ Returned =>
          /\ nMake = iters /\ nEval = iters + 1 /\ StepReadings(iters)
          /\ micro.upto = time

C1_Witness ==
    Returned /\ iters = 2 /\ nMake = 2 /\ nEval = 3 /\ Len(gauges) = 3

\* C2: when end_condition is true on its first evaluation run_test makes no
\* step: time and the microstructure state are as at entry, every listed
\* gauge that was empty holds the one reading of the current state, every
\* other gauge is as at entry; and no listed gauge is empty when
\* end_condition is evaluated.
C2_ZeroSteps ==
    /\ Returned /\ nEval = 1 =>
          /\ time = entry.time
          /\ micro = entry.micro
          /\ \A g \in GaugeIds :
                IF Listed(g) /\ entry.gdata[g] = <<>>
                THEN gdata[g] = <<Measure(g)>> /\ glast[g] = time
                ELSE gdata[g] = entry.gdata[g]
    /\ pc = "check" => \A g \in GaugeIds : Listed(g) => ~empty(g)

C2_Witness ==
    /\ Returned /\ nEval = 1 /\ calls = 2
    /\ \E g, h \in GaugeIds :
          /\ Listed(g) /\ entry.gdata[g] = <<>> /\ Len(gdata[g]) = 1
          /\ Listed(h) /\ Len(entry.gdata[h]) > 1

IsPrefix(s, t) == Len(s) <= Len(t) /\ \A i \in DOMAIN s : s[i] = t[i]

\* C3: over the run_test calls of one Specimen a gauge's history only grows
\* by appending, and holds 1 + n1 + ... + nk readings after the calls that
\* listed it made n1, ..., nk steps: one initial reading, in the first call
\* that found it empty, and no reading twice at the boundary of two tests.
C3_Counts ==
    pc \in {"check", "idle"} =>
        \A g \in GaugeIds :
            /\ Len(gdata[g]) \in {0, 1 + sumIters[g]}
            /\ empty(g) => sumIters[g] = 0 /\ (pc = "check" => ~Listed(g))
            /\ \A i, j \in DOMAIN gdata["strain"] :
                  i < j => RLt(gdata["strain"][i], gdata["strain"][j])

C3_AppendOnly ==
    [][\A g \in GaugeIds : IsPrefix(gdata[g], gdata'[g])]_vars

C3_History == []C3_Counts /\ C3_AppendOnly

C3_Witness ==
    /\ Returned /\ calls = 2 /\ iters > 0
    /\ sumIters["strain"] > iters
    /\ Len(gdata["strain"]) = 1 + sumIters["strain"]


\* ------------------------------------------------------------------
\* Claims about ExtremaFinder
\* ------------------------------------------------------------------
RiseThenFlat == shape.phase \in {"rise", "flat"} /\ finder.prev_value # None

C7_Body ==
    /\ reached <=> shape.small >= STABILIZATION_LENGTH
    /\ reached => /\ shape.small = STABILIZATION_LENGTH
                  /\ finder.extreme_value = shape.top

\* C7 as stated: a finder with the default settings, of either type, fed a
\* rising-then-flat sequence first returns true exactly at the 25th
\* consecutive call whose relative change is below 1%, and extreme_value is
\* then the last value before the flattening.
C7_AnyType == RiseThenFlat => C7_Body

\* C7 as amended: the same for a SUP finder.
C7_Sup == RiseThenFlat /\ finder.extrema_type = SUP => C7_Body

C7_Witness ==
    /\ finder.extrema_type = SUP /\ shape.phase = "flat" /\ shape.rose
    /\ reached /\ shape.n = STABILIZATION_LENGTH
    /\ finder.extreme_value = shape.top

RiseThenFall ==
    finder.extrema_type = SUP /\ shape.phase = "fall" /\ shape.rose

\* C8 as stated: for a SUP finder a sequence that rises and then strictly
\* decreases for 5 consecutive steps makes check_extrema_reached return true
\* at the 5th decreasing step, with the missed counter at miss_length and the
\* stabilized counter below stabilization_length.
C8_MissedOnly ==
    RiseThenFall =>
        /\ shape.n < MISS_LENGTH => ~reached
        /\ shape.n = MISS_LENGTH =>
              /\ reached
              /\ finder.missed_length = MISS_LENGTH
              /\ finder.stabilized_length < STABILIZATION_LENGTH

\* C8 as amended: it returns true at the 5th decreasing step at the latest,
\* there with the missed counter at miss_length; and as long as fewer than 25
\* consecutive calls changed by less than 1% it returns true at the 5th
\* decreasing step and not before, with the stabilized counter below 25.
C8_MissedUnlessStable ==
    RiseThenFall =>
        /\ shape.n <= MISS_LENGTH
        /\ shape.n = MISS_LENGTH =>
              reached /\ finder.missed_length = MISS_LENGTH
        /\ shape.small < STABILIZATION_LENGTH =>
              /\ reached <=> shape.n = MISS_LENGTH
              /\ finder.stabilized_length < STABILIZATION_LENGTH

C8_Witness ==
    /\ RiseThenFall /\ shape.n = MISS_LENGTH /\ reached
    /\ finder.missed_length = MISS_LENGTH
    /\ finder.stabilized_length < STABILIZATION_LENGTH

\* ------------------------------------------------------------------
\* Claims about the rate-curve builders
\* the first evaluation whose value is the extremum of the values fed to the
\* finder: the largest (sign = SUP) or the smallest (sign = INF)
Fed == {i \in DOMAIN trail : trail[i].value # None}

Best(sign) ==
    {i \in Fed : \A k \in Fed :
        RLe(RMul(Whole(sign), trail[k].value), RMul(Whole(sign), trail[i].value))}

FirstBest(sign) == CHOOSE i \in Best(sign) : \A k \in Best(sign) : i <= k

\* C9: when the Max-Load builder's test ends, result holds the strain and
\* stress readings of the first step that carried the largest load observed,
\* and max_load is the largest of all the loads read from the initial state on.
C9_ResultAtSupremum ==
    Returned =>
        /\ [i \in DOMAIN trail |-> trail[i].value] = gdata["load"]
        /\ finder.extreme_value = trail[FirstBest(SUP)].value
        /\ builder.result = [strain |-> trail[FirstBest(SUP)].strain,
                             stress |-> trail[FirstBest(SUP)].stress]
        /\ builder.result = [strain |-> gdata["strain"][FirstBest(SUP)],
                             stress |-> gdata["stress"][FirstBest(SUP)]]

C9_Witness ==
    /\ Returned /\ reached
    /\ FirstBest(SUP) < Len(trail)
    /\ Cardinality(Best(SUP)) > 1
    /\ builder.result.strain # reading("strain")

\* the result is the point where the elastic ray meets the line of slope d
\* through (strain, stress)
IsIntersection(res, E, d, strain, stress) ==
    /\ res.stress = RMul(E, res.strain)
    /\ RSub(res.stress, stress) = RMul(d, RSub(res.strain, strain))
    /\ res.strain = RDiv(RSub(stress, RMul(d, strain)), RSub(E, d))

\* C10 as stated: when the Piecewise builder declares detection its result is
\* the intersection of the elastic ray with the line of slope
\* stabilized_derivative through the readings current at the step where
\* detection is declared.
C10_AtDetection ==
    Returned /\ reached =>
        IsIntersection(builder.result, builder.initial_derivative,
                       finder.extreme_value, reading("strain"), reading("stress"))

\* C10 as amended: the line goes through the readings of the step at which the
\* minimal slope was first attained.
C10_AtMinimalSlope ==
    Returned /\ reached =>
        IsIntersection(builder.result, builder.initial_derivative,
                       finder.extreme_value,
                       trail[FirstBest(INF)].strain, trail[FirstBest(INF)].stress)

C10_Witness ==
    /\ Returned /\ reached
    /\ FirstBest(INF) < Len(trail)
    /\ finder.missed_length = MissLen
    /\ IsIntersection(builder.result, builder.initial_derivative,
                      finder.extreme_value,
                      trail[FirstBest(INF)].strain, trail[FirstBest(INF)].stress)


\* ------------ Claims about VolumeFractionWeightedMicrostructureState

\* a macro step of a model with get_refined_groups has been made
RefinedStep == popSteps > 0 /\ popModel.refinement # "none"

\* a macro step of a model with combine_grain_groups_size_threshold has been
\* made
CombinedStep == popSteps > 0 /\ popModel.threshold # None

\* C4: after a macro step of the population (integrate, refine, merge, with
\* either shipped refinement model or none) the sum of the groups' volumes
\* is at most the sum before the step.
C4_VolumeNotIncreasing ==
    popSteps > 0 =>
        RLe(SumVolumes(grain_groups), SumVolumes(popStep.before))

\* a step in which groups were merged and the total volume fell
C4_Witness ==
    /\ CombinedStep
    /\ \E j \in DOMAIN popStep.targets : Len(popStep.targets[j].members) > 1
    /\ RLt(SumVolumes(grain_groups), SumVolumes(popStep.before))

IdsOf(groups) == {groups[i].id : i \in DOMAIN groups}

\* C5: in the refinement phase a split group of volume v is replaced by newly
\* created groups of non-negative volumes that sum to v, a group the model
\* answers None for is kept as the same object with volume and state
\* unchanged, and so the phase conserves the total volume.
C5_RefinementConserves ==
    RefinedStep =>
        /\ \A i \in DOMAIN popStep.integrated :
              LET g == popStep.integrated[i]
                  part == popStep.parts[i]
              IN  IF popStep.answers[i] = None
                  THEN part = <<g>>
                  ELSE /\ part # <<>>
                       /\ \A k \in DOMAIN part :
                             /\ RLe(Whole(0), part[k].volume)
                             /\ part[k].id \notin IdsOf(popStep.before)
                       /\ SumVolumes(part) = g.volume
        /\ popStep.refined = Flatten(popStep.parts)
        /\ SumVolumes(popStep.refined) = SumVolumes(popStep.integrated)

\* a refinement phase in which one group was split while
\* another was kept as it was
C5_Witness ==
    /\ RefinedStep
    /\ \E i, j \in DOMAIN popStep.integrated :
          /\ popStep.answers[i] = None
          /\ popStep.answers[j] # None
          /\ Len(popStep.parts[j]) = 2
          /\ popStep.parts[j][1].volume # popStep.integrated[j].volume

RECURSIVE WeightedSum(_, _)
WeightedSum(groups, attribute) ==
    IF groups = <<>> THEN Whole(0)
    ELSE RAdd(RMul(groups[1].volume, groups[1][attribute]),
              WeightedSum(Tail(groups), attribute))

WeightedMean(groups, attribute) ==
    RDiv(WeightedSum(groups, attribute), SumVolumes(groups))

\* the mean lies strictly between the least and the greatest of the values,
\* or is their common value
Between(groups, attribute, mean) ==
    LET vals == {groups[i][attribute] : i \in DOMAIN groups}
        lo == CHOOSE x \in vals : \A y \in vals : RLe(x, y)
        hi == CHOOSE x \in vals : \A y \in vals : RLe(y, x)
    IN  IF lo = hi THEN mean = lo ELSE RLt(lo, mean) /\ RLt(mean, hi)

\* every group left by the merge phase is its anchor object holding the sum
\* of the volumes and the volume-weighted mean strain and size of the groups
\* combined into it
MergedAreMeans ==
    \A j \in DOMAIN popStep.targets :
        LET t == popStep.targets[j].group
            m == popStep.targets[j].members
        IN  /\ t.id = m[1].id
            /\ t.volume = SumVolumes(m)
            /\ \A attribute \in {"strain", "size"} :
                  /\ t[attribute] = WeightedMean(m, attribute)
                  /\ Between(m, attribute, t[attribute])

\* the groups the merge phase does not drop, in size order
Trackable ==
    SelectSeq(SortBySize(popStep.refined),
              LAMBDA g : ~RLt(g.volume, MIN_TRACKABLE_FRACTION))

SameTarget(a, b) ==
    \E j \in DOMAIN popStep.targets :
        {a.id, b.id} \subseteq IdsOf(popStep.targets[j].members)

IsAnchor(a) ==
    \E j \in DOMAIN popStep.targets : popStep.targets[j].members[1].id = a.id

CloserThanThreshold(a, b) == RLt(RSub(b.size, a.size), popModel.threshold)

\* C6 as stated: any two trackable groups adjacent in size order and closer
\* in size than the threshold end up merged into one group.
C6_AdjacentMerged ==
    CombinedStep =>
        /\ MergedAreMeans
        /\ \A i \in 1..(Len(Trackable) - 1) :
              CloserThanThreshold(Trackable[i], Trackable[i + 1])
                  => SameTarget(Trackable[i], Trackable[i + 1])

\* C6: two trackable groups adjacent in size order and closer in size than
\* the threshold are merged into one group when the smaller of them is the
\* anchor of its window; every merged group holds the sum of the volumes and
\* the volume-weighted mean strain and size of the groups combined into it,
\* strictly between their extremes whenever they differ.
C6_AnchorWindowMerged ==
    CombinedStep =>
        /\ MergedAreMeans
        /\ \A i \in 1..(Len(Trackable) - 1) :
              (/\ IsAnchor(Trackable[i])
               /\ CloserThanThreshold(Trackable[i], Trackable[i + 1]))
                  => SameTarget(Trackable[i], Trackable[i + 1])

\* a step that merged two groups of different strain and different size
C6_Witness ==
    /\ CombinedStep
    /\ \E j \in DOMAIN popStep.targets :
          LET m == popStep.targets[j].members
          IN  /\ Len(m) = 2
              /\ m[1].strain # m[2].strain
              /\ m[1].size # m[2].size


\* ------------------ Claims about gauges, failures and time in run_test

\* the LoadGauge is listed and its parent is not listed ahead of it
ParentMissing ==
    \E i \in DOMAIN gauges :
        /\ gauges[i] = "load"
        /\ \A k \in 1..(i - 1) : gauges[k] # "stress"

\* at the entry of the current call every listed gauge was empty or last
\* updated at the specimen's time
FreshAtEntry ==
    \A g \in GaugeIds :
        Listed(g) => entry.gdata[g] = <<>> \/ entry.glast[g] = entry.time

\* a dependent gauge stores a reading only when its parent is up to date;
\* the RuntimeError comes from a fill, at a stale parent, and appends nothing
StoresOnlyUpToDate ==
    [][/\ gdata'["load"] # gdata["load"] => glast["stress"] = time
       /\ pc' = "raised" /\ pc # "raised" =>
             /\ pc \in {"fill0", "fill"}
             /\ ParentStale(gauges[gi])
             /\ gdata' = gdata /\ glast' = glast]_vars

\* run_test does not raise the error when every parent is listed ahead and
\* the listed gauges were empty or up to date at entry
NoErrorInOrder ==
    calls > 0 /\ ~ParentMissing /\ FreshAtEntry => pc # "raised"

\* C14 as stated: run_test does not raise with the parents listed ahead, and
\* with the dependent gauge listed ahead of or without its parent it fails at
\* its first fill.
C14_FailsAtFirstFill ==
    /\ NoErrorInOrder
    /\ calls > 0 /\ ParentMissing => pc \in {"fill0", "raised"} /\ nEval = 0

\* C14: a dependent gauge stores a reading only if its parent was updated at
\* the specimen's current time, else RuntimeError is raised and nothing is
\* appended; run_test never raises it when the parents are listed ahead and
\* the listed gauges were empty or up to date at entry; with the dependent
\* gauge ahead of or without its parent run_test fails at its first fill if
\* the dependent gauge was empty and the parent not up to date at entry, and
\* otherwise at the fill after its first step, if it makes one.
C14_FailsWhenMeasuredStale ==
    /\ StoresOnlyUpToDate
    /\ [](NoErrorInOrder)
    /\ [](calls > 0 /\ ParentMissing =>
             /\ iters = 0
             /\ entry.gdata["load"] = <<>> /\ entry.glast["stress"] # entry.time
                    => pc \in {"fill0", "raised"} /\ nEval = 0)

\* the second call lists the dependent gauge ahead of its parent, passes the
\* initial fill and fails at the fill after its first step
C14_Witness ==
    /\ pc = "raised" /\ calls = 2 /\ nMake = 1
    /\ ParentMissing /\ Listed("stress")

\* C15: when the solver run of a step does not finish, or ends at another
\* time than t + time_step, make_step raises and run_test ends there: the
\* time is not advanced, no gauge reads, the state stays as before the step
\* and nothing is retried; a step that does not raise leaves the state at
\* t + time_step.
C15_FailedStep ==
    /\ [](pc = "failed" => micro.upto = time /\ StepReadings(iters) /\ nMake = iters + 1)
    /\ [][/\ pc # "failed"
          /\ pc' = "failed" =>
                /\ pc = "step"
                /\ time' = time /\ micro' = micro /\ gdata' = gdata /\ glast' = glast
          /\ pc = "step" /\ pc' = "advance" => micro'.upto = time + time_step]_vars

\* a step failed after a completed one, with gauges listed
C15_Witness == pc = "failed" /\ iters = 1 /\ Len(gauges) = 3

\* C17: Specimen.time starts at 0, changes only by time_step being added
\* once per step of run_test, never decreases, and a later run_test starts
\* from the time and the state the previous one ended with.
C17_TimeMonotone ==
    /\ [](calls = 0 => time = 0)
    /\ [][/\ time' >= time
          /\ time' # time => pc = "advance" /\ time' = time + time_step
          /\ pc = "idle" => time' = time /\ micro' = micro]_vars

\* a second run_test that started at a positive time has advanced it
C17_Witness == calls = 2 /\ entry.time > 0 /\ time > entry.time /\ Returned


\* ------------------------------ Claims about the population's readings

\* the volume-weighted average of a property over the groups
AverageProperty(groups, property, t) ==
    RDiv(calc_property(groups, property, t), SumVolumes(groups))

\* C18 as stated: calc_property of a population is the average of the
\* property over the current groups weighted by their volumes, so that groups
\* of one common value p give p, also after groups were dropped.
C18_WeightedAverage ==
    \A property \in Properties :
        calc_property(grain_groups, property, popSteps)
            = AverageProperty(grain_groups, property, popSteps)

\* a negligible group was dropped and the remaining groups share one size
C18_Dropped ==
    /\ CombinedStep
    /\ RLt(SumVolumes(grain_groups), Whole(1))
    /\ \A i \in DOMAIN grain_groups : grain_groups[i].size = grain_groups[1].size
    /\ calc_property(grain_groups, "grain_size", popSteps) # grain_groups[1].size

\* ------------------------------------------------ Claims about Model objects
ParameterNames(m) == DOMAIN collect_parameters(m.cls)

\* C19: a Model object holds exactly the parameters its classes declare:
\* construction raises exactly when a required parameter is not given and
\* ignores undeclared names, an assignment to a name that is not an
\* attribute raises and leaves the object as it was, an assignment to a
\* parameter changes that value only, and no parameter is ever added or
\* removed.
C19_FixedParameters ==
    /\ model.cls # "none" =>
          DOMAIN model.dict \ ClassAttributes = ParameterNames(model)
    /\ modelOp.op = "init" =>
          /\ modelOp.raised =
                (\E name \in DOMAIN collect_parameters(modelOp.cls) :
                    /\ collect_parameters(modelOp.cls)[name].required
                    /\ name \notin DOMAIN modelOp.kwargs)
          /\ modelOp.raised => model.cls = "none"
          /\ ~modelOp.raised =>
                /\ model.cls = modelOp.cls
                /\ \A name \in DOMAIN model.dict :
                      IF name \in DOMAIN modelOp.kwargs
                      THEN model.dict[name] = modelOp.kwargs[name]
                      ELSE model.dict[name] = collect_parameters(model.cls)[name].default
    /\ modelOp.op = "setattr" =>
          /\ model.cls = modelOp.before.cls
          /\ modelOp.raised =
                (modelOp.name \notin DOMAIN modelOp.before.dict \cup ClassAttributes)
          /\ modelOp.raised => model = modelOp.before
          /\ \A name \in ParameterNames(model) :
                model.dict[name] =
                    IF name = modelOp.name THEN modelOp.value
                    ELSE modelOp.before.dict[name]

\* an assignment to an unknown name was refused on a model constructed with
\* an undeclared keyword argument
C19_Witness ==
    /\ modelOp.op = "setattr" /\ modelOp.raised /\ modelOp.name = "bogus"
    /\ model.cls = "PerzinaDeformationModel" /\ model.dict["nu"] = 3

\* C20: to_dict holds exactly the parameters whose value differs from the
\* declared default, and constructing the class from it gives a model with
\* the same value for every parameter.
C20_RoundTrip ==
    modelOp.op = "to_dict" =>
        /\ ~modelOp.raised
        /\ DOMAIN modelOp.kwargs =
              {name \in ParameterNames(model) :
                  \/ collect_parameters(model.cls)[name].required
                  \/ model.dict[name] # collect_parameters(model.cls)[name].default}
        /\ \A name \in DOMAIN modelOp.kwargs : modelOp.kwargs[name] = model.dict[name]
        /\ rebuilt.cls = model.cls
        /\ DOMAIN rebuilt.dict = ParameterNames(model)
        /\ \A name \in ParameterNames(model) : rebuilt.dict[name] = model.dict[name]

\* a model whose nu was assigned back to its default was rebuilt from a
\* dictionary without nu
C20_Witness ==
    /\ modelOp.op = "to_dict" /\ rebuilt.cls = "PerzinaDeformationModel"
    /\ "nu" \notin DOMAIN modelOp.kwargs /\ modelOp.sets = 1
    /\ modelOp.kwargs["yield_stress"] = -2

\* ------------------------------------------------ Claims about identification
RECURSIVE GroupsUpTo(_, _)
GroupsUpTo(groups, n) == IF n = 0 THEN <<>> ELSE GroupsUpTo(groups, n - 1) \o groups[n]

\* the stages the claim lists for a call, in its order
ClaimedStages(cls, args) ==
    (IF args.rate THEN <<[kind |-> "rate", params |-> MainParams(cls)]>> ELSE <<>>)
    \o <<[kind |-> "strain", params |-> MainParams(cls)]>>
    \o (IF args.grain_growth_curves
        THEN <<[kind |-> "grain", params |-> args.grain_growth_params]>> ELSE <<>>)
    \o [j \in 1 .. args.others |->
           [kind |-> "strain",
            params |-> MainParams(cls) \o GroupsUpTo(OtherGroups(cls), j)]]

InSeq(x, s) == \E i \in DOMAIN s : s[i] = x

\* C11: the stages identify_model has started are always the first of
\* (rate if given, strain, grain growth if given, one strain stage per
\* additional group with the main parameters and all groups so far), every
\* stage but the last started is complete, each starts from the values the
\* previous one left in the one model, the call returns after all of them,
\* and no strain stage fits a grain growth parameter.
C11_StagedOrder ==
    ident.pc # "none" =>
        LET plan == ClaimedStages(model.cls, ident.args)
        IN  /\ model.cls = ident.initial.cls
            /\ Len(stages) <= Len(plan)
            /\ \A i \in DOMAIN stages :
                  /\ stages[i].kind = plan[i].kind
                  /\ stages[i].params = plan[i].params
                  /\ stages[i].from = IF i = 1 THEN ident.initial ELSE stages[i - 1].to
                  /\ stages[i].x0 = [j \in DOMAIN stages[i].params |->
                                        stages[i].from.dict[stages[i].params[j]]]
                  /\ i < Len(stages) => stages[i].done
                  /\ stages[i].kind = "strain" =>
                        \A j \in DOMAIN stages[i].params :
                            ~InSeq(stages[i].params[j], GrainGrowthParams(model.cls))
            /\ ident.pc \in {"leastsq", "functional"} => ~stages[Len(stages)].done
            /\ ident.pc \in {"between", "returned"} /\ stages # <<>> =>
                  /\ stages[Len(stages)].done
                  /\ model = stages[Len(stages)].to
            /\ ident.pc = "returned" => Len(stages) = Len(plan)

\* a call with rate and grain growth curves and one additional group has
\* returned, its last stage having started from values the earlier ones set
C11_Witness ==
    /\ ident.pc = "returned" /\ Len(stages) = 4
    /\ stages[3].kind = "grain" /\ stages[4].from # ident.initial
    /\ stages[4].x0 # [j \in DOMAIN stages[4].params |->
                          ident.initial.dict[stages[4].params[j]]]

\* what the class makes of a value under a policy that does not raise:
\* PerzinaDeformationModel keeps nu at 1 or above, every other parameter
\* is kept at 0 or above
ExpectedRange(cls, name, value, policy) ==
    IF cls = "PerzinaDeformationModel" /\ name = "nu" /\ value < 1
    THEN CASE policy = "cutoff" -> 1
           [] policy = "invert" -> 2 - value
           [] OTHER -> value
    ELSE IF value < 0
    THEN CASE policy = "cutoff" -> 0
           [] policy = "invert" -> -value
           [] OTHER -> value
    ELSE value

OutOfRange(cls, name, value) ==
    \/ value < 0
    \/ cls = "PerzinaDeformationModel" /\ name = "nu" /\ value < 1

\* C12 as stated: after every assignment of a vector the model holds, for
\* every parameter, 0 (cutoff) or the absolute value (invert) of a negative
\* value and any other value unchanged, and raise raises exactly for a
\* negative value.
C12_AbsoluteOrZero ==
    ident.updates > 0 =>
        /\ (ident.pc = "ValueError") =
              (ident.policy = "raise" /\
                  \E name \in ParameterNames(model) : ident.raw.dict[name] < 0)
        /\ ident.pc # "ValueError" =>
              \A name \in ParameterNames(model) :
                  model.dict[name] =
                      IF ident.raw.dict[name] >= 0 \/ ident.policy \in {"ignore", "raise"}
                      THEN ident.raw.dict[name]
                      ELSE IF ident.policy = "cutoff" THEN 0
                      ELSE Abs(ident.raw.dict[name])

\* C12, amended: after every assignment of a vector (a trial or the result)
\* the model holds, for every parameter and not only the fitted ones, the
\* value its class's ensure_physical_ranges makes of the assigned one (for
\* nu of PerzinaDeformationModel below 1: 1 under cutoff, 2 - nu under
\* invert), before the functional runs or the call returns; raise raises
\* exactly when a value is out of its range; under cutoff and invert no
\* parameter is negative while a simulation runs or when the call returns.
C12_RangesAfterUpdate ==
    ident.updates > 0 =>
        /\ ident.pc # "leastsq" \/ ident.trials > 0 =>
              \A i \in DOMAIN ident.params : ident.raw.dict[ident.params[i]] = ident.x[i]
        /\ (ident.pc = "ValueError") =
              (ident.policy = "raise" /\
                  \E name \in ParameterNames(model) :
                      OutOfRange(model.cls, name, ident.raw.dict[name]))
        /\ ident.pc = "ValueError" => model = ident.raw
        /\ ident.pc # "ValueError" =>
              \A name \in ParameterNames(model) :
                  model.dict[name] =
                      ExpectedRange(model.cls, name, ident.raw.dict[name], ident.policy)
        /\ ident.policy \in {"cutoff", "invert"} =>
              \A name \in ParameterNames(model) : model.dict[name] >= 0

\* a simulation runs on a Perzina model whose fitted nu was assigned -2
\* under invert and whose yield stress, which is not fitted, was negative
\* when the call began
C12_Witness ==
    /\ ident.pc = "functional" /\ pc = "step"
    /\ model.cls = "PerzinaDeformationModel" /\ ident.policy = "invert"
    /\ ident.raw.dict["nu"] = -2 /\ model.dict["nu"] = 4
    /\ ident.initial.dict["yield_stress"] = -2 /\ model.dict["yield_stress"] = 2
    /\ ident.params = <<"nu">>

\* C13: a policy passed to identify_model is the policy of every stage, the
\* grain growth stage included, and the call does not fail on it.
C13_PolicyForwarded ==
    ident.pc # "none" /\ ident.args.kwargs # "none" =>
        /\ ident.pc # "TypeError"
        /\ \A i \in DOMAIN stages : stages[i].policy = ident.args.kwargs
        /\ ident.pc = "returned" /\ ident.args.grain_growth_curves =>
              \E i \in DOMAIN stages : stages[i].kind = "grain"

\* identify_model given grain growth curves and cutoff has failed with a
\* TypeError after its rate and strain stages
C13_TypeError ==
    /\ ident.pc = "TypeError" /\ ident.args.kwargs = "cutoff"
    /\ Len(stages) = 2 /\ stages[2].done /\ stages[2].kind = "strain"

\* C16: inside identify_model the model changes only in a step of leastsq's
\* side (a trial's or the result's _update_model) taken while no test runs,
\* never in a step of run_test, and a functional once entered is left only
\* when its test has ended.
C16_NoInterleaving ==
    [][ident.pc # "none" =>
          /\ model' # model =>
                /\ ident.pc = "leastsq" /\ pc = "idle"
                /\ ident'.pc \in {"functional", "between", "ValueError"}
          /\ ident.pc = "functional" =>
                /\ model' = model
                /\ pc # "idle" => ident'.pc = "functional" /\ ident'.trials = ident.trials
          /\ ident'.pc = "functional" /\ ident.pc # "functional" =>
                pc' = "fill0" /\ calls' = 1 /\ time' = 0]_vars

\* the test of the second evaluation of a stage is between two steps, on a
\* model the first stages have changed
C16_Witness ==
    /\ ident.pc = "functional" /\ pc = "advance" /\ ident.trials = 1
    /\ Len(stages) = 2 /\ model # ident.initial

\* -------------------------------- Claims about the phases of a macro step
SameGroups(a, b) ==
    /\ Len(a) = Len(b)
    /\ \A i \in DOMAIN a : a[i].id = b[i].id /\ a[i].volume = b[i].volume

\* the groups of part are a split computed from group g as integrated, at
\* the strain the specimen has at the end of macro step k
SplitOfIntegrated(part, g, k) ==
    /\ Len(part) = 2
    /\ part[2].strain = g.strain
    /\ IF popModel.refinement = "GhoshRaj"
       THEN /\ part[1].strain = Rat(k, 10)
            /\ part[1].size = REFERENCE_REFINEMENT_SIZE
       ELSE /\ part[1].strain = g.strain
            /\ part[2].size = g.size
            /\ part[1].size = RMul(SIZE_COEF, g.size)

\* C24: a macro step integrates every group on its own, then refines (only
\* with get_refined_groups, from each group's integrated state and the strain
\* at the end of the step), then merges (only with the threshold); with a
\* model that has neither, the groups after the step are the integrated
\* ones, the same in number, order, identity and volume as before.
C24_PhaseOrder ==
    popSteps > 0 =>
        /\ SameGroups(popStep.integrated, popStep.before)
        /\ popStep.refined = Flatten(popStep.parts)
        /\ Len(popStep.parts) = Len(popStep.integrated)
        /\ \A i \in DOMAIN popStep.integrated :
              IF popModel.refinement = "none" \/ popStep.answers[i] = None
              THEN popStep.parts[i] = <<popStep.integrated[i]>>
              ELSE SplitOfIntegrated(popStep.parts[i], popStep.integrated[i], popSteps)
        /\ IF popModel.threshold = None
           THEN grain_groups = popStep.refined
           ELSE /\ UNION {IdsOf(popStep.targets[j].members) : j \in DOMAIN popStep.targets}
                      \subseteq IdsOf(popStep.refined)
                /\ grain_groups = GroupsOf(popStep.targets)
        /\ popModel.refinement = "none" /\ popModel.threshold = None =>
              /\ grain_groups = popStep.integrated
              /\ SameGroups(grain_groups, popStep.before)

\* the second macro step of a Ghosh-Raj model moved a group, split it and
\* merged groups afterwards
C24_Witness ==
    /\ popSteps = 2 /\ popModel.refinement = "GhoshRaj"
    /\ \E i \in DOMAIN popStep.integrated :
          /\ popStep.answers[i] # None
          /\ popStep.integrated[i].strain # popStep.before[i].strain
    /\ Len(grain_groups) < Len(popStep.refined)

\* C25: in the merge phase a trackable group is absorbed into the current
\* anchor exactly when its size is at most the anchor's size when it became
\* the anchor plus the threshold: every member of a merged group lies within
\* that window, and the next anchor lies beyond it, whatever the merged
\* average has become.
C25_OriginalWindow ==
    CombinedStep =>
        /\ \A j \in DOMAIN popStep.targets :
              LET m == popStep.targets[j].members
              IN  /\ popStep.targets[j].original_size = m[1].size
                  /\ \A k \in DOMAIN m :
                        RLe(m[k].size, RAdd(m[1].size, popModel.threshold))
        /\ \A j \in 1 .. (Len(popStep.targets) - 1) :
              RLt(RAdd(popStep.targets[j].members[1].size, popModel.threshold),
                  popStep.targets[j + 1].members[1].size)
        /\ \A i \in DOMAIN Trackable :
              \E j \in DOMAIN popStep.targets :
                  Trackable[i].id \in IdsOf(popStep.targets[j].members)

\* a group within the threshold of the merged average of the anchor, but
\* beyond the anchor's original size plus the threshold, opened a new window
C25_Witness ==
    /\ CombinedStep
    /\ \E j \in 1 .. (Len(popStep.targets) - 1) :
          LET t == popStep.targets[j]
              next == popStep.targets[j + 1].members[1]
          IN  /\ Len(t.members) > 1
              /\ RLe(next.size, RAdd(t.group.size, popModel.threshold))
              /\ RLt(RAdd(t.original_size, popModel.threshold), next.size)

BelowFloor(g) == RLt(g.volume, MIN_TRACKABLE_FRACTION)

\* C26: after a merge phase every group has a volume of at least the floor;
\* a group below the floor at the phase is in no merged group, its volume is
\* in none, and the phase gives what it gives without that group.
C26_FloorKept ==
    CombinedStep =>
        /\ \A i \in DOMAIN grain_groups : ~BelowFloor(grain_groups[i])
        /\ \A i \in DOMAIN popStep.refined :
              BelowFloor(popStep.refined[i]) =>
                  \A j \in DOMAIN popStep.targets :
                      popStep.refined[i].id \notin IdsOf(popStep.targets[j].members)
        /\ SumVolumes(grain_groups) = SumVolumes(Trackable)
        /\ popStep.targets = CombineGroups(Trackable, popModel.threshold)

\* a merge phase dropped a group and the total volume fell by its volume
C26_Witness ==
    /\ CombinedStep
    /\ \E i \in DOMAIN popStep.refined :
          /\ BelowFloor(popStep.refined[i])
          /\ SumVolumes(popStep.refined) =
                RAdd(SumVolumes(grain_groups), popStep.refined[i].volume)
    /\ Len(grain_groups) = 1

\* the largest number of groups a merge phase may leave: the quotient of the
\* spread of the sizes by the threshold, rounded down, and one
CountBound(groups, threshold) ==
    LET sizes == {groups[i].size : i \in DOMAIN groups}
        lo == CHOOSE x \in sizes : \A y \in sizes : RLe(x, y)
        hi == CHOOSE x \in sizes : \A y \in sizes : RLe(y, x)
        q == RDiv(RSub(hi, lo), threshold)
    IN  (q[1] \div q[2]) + 1

\* C29: after a merge phase the groups are in strictly ascending size
\* order, the sizes at which consecutive anchors were opened differ by more
\* than the threshold, and the number of groups is at most the spread of the
\* sizes before the phase divided by the threshold, rounded down, plus one.
C29_BoundedCount ==
    CombinedStep =>
        /\ \A j \in 1 .. (Len(grain_groups) - 1) :
              RLt(grain_groups[j].size, grain_groups[j + 1].size)
        /\ \A j \in 1 .. (Len(popStep.targets) - 1) :
              RLt(popModel.threshold,
                  RSub(popStep.targets[j + 1].original_size,
                       popStep.targets[j].original_size))
        /\ Len(grain_groups) <= CountBound(popStep.refined, popModel.threshold)

\* three groups given out of size order were merged into two, as many as
\* the bound allows
C29_Witness ==
    /\ CombinedStep
    /\ Len(popStep.refined) = 3 /\ Len(grain_groups) = 2
    /\ CountBound(popStep.refined, popModel.threshold) = 2
    /\ RLt(popStep.refined[2].size, popStep.refined[1].size)

\* ------------------------------------- Claims about sequences that settle
\* C28: once the sequence fed has been constant for stabilization_length
\* calls, whatever the constant, check_extrema_reached has returned true.
C28_SettledIsReached ==
    shape.phase = "flat" /\ shape.n >= finder.stabilization_length => reached

\* the sequence has stayed at 0 for more than stabilization_length calls and
\* the finder has counted none of them
C28_StuckAtZero ==
    /\ shape.phase = "flat" /\ shape.n > finder.stabilization_length
    /\ finder.prev_value = Whole(0)
    /\ finder.stabilized_length = 0 /\ finder.missed_length = 0
    /\ ~reached

\* ------------------------- Claims about the phases of the Piecewise builder
\* the difference quotient of stress by strain between the readings of the
\* evaluations i - 1 and i of the end condition
Quotient(i) ==
    RDiv(RSub(trail[i].stress, trail[i - 1].stress),
         RSub(trail[i].strain, trail[i - 1].strain))

\* the evaluations whose quotient is at or below the threshold's share of
\* the initial slope
AtOrBelowThreshold ==
    {i \in 2 .. Len(trail) :
        RLe(Quotient(i),
            RMul(builder.elastic_region_threshold, builder.initial_derivative))}

\* C27: until the first step whose difference quotient is at or below
\* elastic_region_threshold times the initial slope the builder feeds its
\* finder nothing and does not end the test; at that step and at every
\* later one it feeds the step's quotient, and it never returns to the first
\* phase, whatever the quotient does.
C27_PhasesOfPiecewise ==
    /\ \A i \in DOMAIN trail :
          trail[i].value =
              IF \E k \in AtOrBelowThreshold : k <= i THEN Quotient(i) ELSE None
    /\ builder.elastic_region_passed = (AtOrBelowThreshold # {})
    /\ AtOrBelowThreshold = {} =>
          /\ ~reached
          /\ finder.prev_value = None /\ finder.extreme_value = None
          /\ calls > 0 => pc # "idle"
    /\ AtOrBelowThreshold # {} => finder.prev_value = Quotient(Len(trail))

\* after the elastic region was passed the quotient rose above the threshold
\* again and was fed to the finder
C27_Witness ==
    /\ builder.elastic_region_passed
    /\ Len(trail) = 5 /\ Cardinality(AtOrBelowThreshold) = 2
    /\ trail[2].value = None /\ trail[3].value = Whole(8)
    /\ trail[5].value = Whole(16) /\ finder.prev_value = Whole(16)

\* ------------------------------------------------------------------
\* Claims about the DeformationEnergyGauge
\* ------------------------------------------------------------------

\* the trapezoidal sum over the first k steps of the readings in seen
RECURSIVE TrapezoidalSum(_, _)
TrapezoidalSum(seen, k) ==
    IF k = 0
    THEN Whole(0)
    ELSE RAdd(TrapezoidalSum(seen, k - 1),
              RMul(RMul(<<1, 2>>, RAdd(seen[k + 1].stress, seen[k].stress)),
                   RSub(seen[k + 1].strain, seen[k].strain)))

\* C30: the k-th reading of the DeformationEnergyGauge (k = 0 the first) is the
\* trapezoidal sum over i = 1..k of 0.5 * (stress_i + stress_(i-1)) *
\* (strain_i - strain_(i-1)) of its parents' readings at the measurements it
\* has made; the first reading is 0, a later run_test call on the same
\* Specimen continues the sum, the gauge has as many readings as it has
\* measurements, and a step between non-negative stresses with a
\* non-decreasing strain does not lower the reading.
C30_TrapezoidalSum ==
    /\ Len(gdata["energy"]) = Len(gstate.seen)
    /\ \A k \in 0..(Len(gdata["energy"]) - 1) :
           gdata["energy"][k + 1] = TrapezoidalSum(gstate.seen, k)
    /\ gdata["energy"] # <<>> => gdata["energy"][1] = Whole(0)
    /\ \A k \in 1..(Len(gdata["energy"]) - 1) :
           ( /\ RLe(Whole(0), gstate.seen[k].stress)
             /\ RLe(Whole(0), gstate.seen[k + 1].stress)
             /\ RLe(gstate.seen[k].strain, gstate.seen[k + 1].strain) )
               => RLe(gdata["energy"][k], gdata["energy"][k + 1])
    /\ ( /\ Len(gdata["energy"]) = Len(gdata["stress"])
         /\ Len(gdata["energy"]) = Len(gdata["strain"]) )
           => \A k \in 1..(Len(gdata["energy"]) - 1) :
                  gdata["energy"][k + 1] =
                      RAdd(gdata["energy"][k],
                           RMul(RMul(<<1, 2>>, RAdd(gdata["stress"][k + 1],
                                                    gdata["stress"][k])),
                                RSub(gdata["strain"][k + 1], gdata["strain"][k])))

\* a second run_test call has added readings to those of the first, the
\* stress changed between two measurements, and the energy is not 0
C30_Witness ==
    /\ calls = 2
    /\ pc = "idle"
    /\ iters > 0
    /\ Len(gdata["energy"]) >= 3
    /\ \E k \in 1..(Len(gstate.seen) - 1) :
           gstate.seen[k].stress # gstate.seen[k + 1].stress
    /\ reading("energy") # Whole(0)

\* ------------------------------------------------------------------
\* Claims about get_model_metrics
\* ------------------------------------------------------------------

\* the absolute relative errors of the model at the points of the k-th
\* reference curve (no ordinate of which is 0)
RelativeErrors(k) ==
    LET curve == metrics.reference[k]
        approx == iter_model_stresses(k, curve)
    IN  [i \in 1..Len(curve) |->
            RDiv(RAbs(RSub(approx[i], curve[i][2])), RAbs(curve[i][2]))]

\* the relative errors at all points of the curves 1..k, and their number
RECURSIVE AllRelativeErrors(_)
AllRelativeErrors(k) ==
    IF k = 0 THEN <<>> ELSE AllRelativeErrors(k - 1) \o RelativeErrors(k)

\* the call of get_model_metrics with StrainCurves has ended
MetricsEnded(metric_type) ==
    /\ metrics.kind = "StrainCurves"
    /\ metrics.metric_type = metric_type
    /\ metrics.pc \in {"returned", "raised"}

\* every reference curve is the strain curve the model itself builds for its key
OwnPrediction ==
    /\ metrics.reference # <<>>
    /\ \A k \in 1..Len(metrics.reference) :
           metrics.reference[k] =
               StrainCurveOfModel(k, Last(metrics.reference[k])[1])

\* with AVG the value of a key is 100 times the mean of its relative errors
\* and the value under None is 100 times the sum of all relative errors
\* divided by the number of all points
C21_ReturnedAverages ==
    (MetricsEnded("avg") /\ metrics.pc = "returned") =>
        /\ Len(metrics.values) = Len(metrics.reference)
        /\ \A k \in 1..Len(metrics.reference) :
               metrics.values[k] =
                   RMul(Whole(100), RDiv(SumOf(RelativeErrors(k)),
                                         Whole(Len(metrics.reference[k]))))
        /\ LET all == AllRelativeErrors(Len(metrics.reference))
           IN  metrics.pooled = RDiv(RMul(Whole(100), SumOf(all)), Whole(Len(all)))

\* C21: get_model_metrics with ErrorMetric.AVG returns per key 100 times the
\* mean absolute relative error of the curve's points and under None 100 times
\* the sum of all absolute relative errors divided by the total number of
\* points, and with reference curves identical to the model's own prediction
\* it returns 0 for every key and for the pooled value.
C21_AverageDeviation ==
    /\ C21_ReturnedAverages
    /\ (MetricsEnded("avg") /\ OwnPrediction) =>
           /\ metrics.pc = "returned"
           /\ \A k \in 1..Len(metrics.values) : metrics.values[k] = Whole(0)
           /\ metrics.pooled = Whole(0)

\* the reference curves are the model's own strain curves, whose first point
\* has the stress 0, and the call has raised ZeroDivisionError
C21_RaisedOnOwnPrediction ==
    /\ MetricsEnded("avg")
    /\ OwnPrediction
    /\ metrics.reference[1][1] = <<Whole(0), Whole(0)>>
    /\ metrics.pc = "raised"
    /\ metrics.error = "ZeroDivisionError"

\* with MAX the value of a key is 100 times its largest relative error
MaxPerKey ==
    /\ Len(metrics.values) = Len(metrics.reference)
    /\ \A k \in 1..Len(metrics.reference) :
           metrics.values[k] = RMul(Whole(100), MaxOf(RelativeErrors(k)))

\* C22 as stated: with ErrorMetric.MAX the value of a key is 100 times the
\* largest absolute relative error of its points, and the value under None is
\* 100 times the largest absolute relative error over all points of all
\* curves, the maximum of the values of the keys.
C22_PooledMaximum ==
    (MetricsEnded("max") /\ metrics.pc = "returned") =>
        /\ MaxPerKey
        /\ metrics.pooled = MaxOf(metrics.values)
        /\ metrics.pooled =
               RMul(Whole(100), MaxOf(AllRelativeErrors(Len(metrics.reference))))

\* C22: with ErrorMetric.MAX the value of a key is 100 times the largest
\* absolute relative error of its points, and the value under None is the
\* mean of the values of the keys, every curve counting once.
C22_PooledMeanOfMaxima ==
    (MetricsEnded("max") /\ metrics.pc = "returned") =>
        /\ MaxPerKey
        /\ metrics.pooled =
               RDiv(SumOf(metrics.values), Whole(Len(metrics.values)))

\* MAX has returned for two curves, one of them of several points with
\* different errors, and the values of the two keys differ
C22_Witness ==
    /\ MetricsEnded("max")
    /\ metrics.pc = "returned"
    /\ Len(metrics.values) >= 2
    /\ metrics.values[1] # metrics.values[2]
    /\ \E k \in 1..Len(metrics.reference) :
           \E i, j \in 1..Len(metrics.reference[k]) :
               RelativeErrors(k)[i] # RelativeErrors(k)[j]
    /\ RLt(metrics.pooled, MaxOf(metrics.values))

====
